---- MODULE Spec2Model ----
(***************************************************************************)
(* The tree-walking runner of the macro language (src/src/core/runner.py)  *)
(* as a small-step machine: the Python call stack of ASTRunner is the      *)
(* sequence `stack`, a raised control-flow exception is `sig`, and the     *)
(* stop request of the player's main thread is the action Stop (Spec).     *)
(* MacroPlayer with the threads it starts is PlayerSpec; one call of       *)
(* build_ast on generated token lines is BuildSpec; parse_lines on a       *)
(* source text followed by build_ast is ParseSpec; one call of eval_expr   *)
(* and one of eval_condition on the same arguments is EvalSpec.            *)
(***************************************************************************)
EXTENDS Integers, Sequences, FiniteSets, TLC

VARIABLES
    prog,        \* name of the top-level script handed to _PlaybackThread
    hasMss,      \* whether the optional mss/numpy backend can be imported
    stack,       \* active Python frames of the runner, outermost first
    sig,         \* exception in flight: none, Break, Continue, Return, Exit, Error
    stores,      \* the VariableStore objects of the run; a runner holds the index of its own
    stop_event,  \* CommandExecutor._stop_event
    trace,       \* what the run did: leaf nodes started, conditions evaluated
    log,         \* messages handed to log_fn / log_msg, in order
    status       \* "running" while _PlaybackThread.run is active, then "finished"

rvars == <<prog, hasMss, stack, sig, stores, stop_event, trace, log, status>>

\* MacroPlayer on the main thread and the playback threads it has started
VARIABLES
    p_thread,    \* MacroPlayer._thread: 0 for None, else the number of a thread
    p_threads,   \* the _PlaybackThread objects created so far, in order
    p_events,    \* finished signals queued for the main thread's event loop
    p_calls,     \* how many times play() was called
    p_status     \* the last status_changed emission, "" before the first

pvars == <<p_thread, p_threads, p_events, p_calls, p_status>>

\* the builder: one call of build_ast
VARIABLES
    b_lines,     \* the token lines handed to build_ast
    b_out        \* its outcome once it has returned, NotBuilt before

bvars == <<b_lines, b_out>>

\* parse_lines followed by build_ast on one source text
VARIABLES
    s_text,      \* the raw lines of the text (text.splitlines()), each a sequence of
                 \* characters and words
    s_sugar,     \* the alias map of the settings
    s_done,      \* per line read so far: the tokens of tokenize and of expand_sugar
    s_result,    \* result of parse_lines so far
    s_ast        \* what build_ast gave for s_result, NotBuilt before
svars == <<s_text, s_sugar, s_done, s_result, s_ast>>

\* one call of eval_expr and one of eval_condition on the same arguments
VARIABLES
    e_tokens,    \* the token list
    e_store,     \* the variables
    e_env,       \* the optional libraries of the host
    e_expr,      \* how eval_expr ended, NotCalled before
    e_cond       \* how eval_condition ended, NotCalled before
evars == <<e_tokens, e_store, e_env, e_expr, e_cond>>

\* one VariableStore and the snapshots as_dict has handed out
VARIABLES
    d_heap,      \* the dict objects that exist, by reference number
    d_snaps,     \* references of the dicts as_dict has returned, in order
    d_op         \* the last operation: "", "set", "as_dict" or "write"

dvars == <<d_heap, d_snaps, d_op>>

\* one call of CommandExecutor._sleep, with stop() possible at any moment
VARIABLES
    w_ms,        \* the requested duration in milliseconds
    w_speed,     \* settings.playback_speed, in hundredths
    w_pc,        \* "call", "poll", "sleep" or "done"
    w_elapsed,   \* elapsed, in milliseconds
    w_t,         \* t, the chunk being slept
    w_flag,      \* the stop event
    w_chunks,    \* the chunks slept so far
    w_late       \* how many of them ended after the flag was set

wvars == <<w_ms, w_speed, w_pc, w_elapsed, w_t, w_flag, w_chunks, w_late>>

\* what a run of the runner leaves alone
ovars == <<pvars, bvars, svars, evars, dvars, wvars>>

vars == <<rvars, pvars, bvars, svars, evars, dvars, wvars>>

(***************************************************************************)
(* Limits.  MAX_CALL_DEPTH has the value of constants.py.  MAX_ITERATIONS  *)
(* is 100_000 in constants.py; the model runs the same code with a small   *)
(* ceiling so that the loops that reach it stay explorable.                *)
(***************************************************************************)
MAX_CALL_DEPTH == 16
MAX_ITERATIONS == 3

(***************************************************************************)
(* Values of the variable store: int, bool and str, tagged.                *)
(***************************************************************************)
IntV(n)  == [t |-> "int",  n |-> n, s |-> ""]
BoolV(b) == [t |-> "bool", n |-> IF b THEN 1 ELSE 0, s |-> ""]
StrV(x)  == [t |-> "str",  n |-> 0, s |-> x]

\* Python truthiness, bool(value)
Truthy(v) == IF v.t = "str" THEN v.s # "" ELSE v.n # 0

\* tokens that start with VARIABLE_PREFIX ("$")
VarNames == {"$x", "$y", "$n", "$a", "$b", "$d", "$r", "$k", "$s"}
IsVar(tok) == tok \in VarNames

\* decimal forms of the integers the scripts of the model compute: str(n) is
\* DecStr[n + 1], and int(s) inverts it
DecStr == <<"0", "1", "2", "3", "4", "5", "6", "7", "8", "9",
            "10", "11", "12", "13", "14", "15", "16", "17", "18", "19", "20">>
IsIntTok(tok) == \E i \in 1..Len(DecStr) : DecStr[i] = tok
IntOfTok(tok) == (CHOOSE i \in 1..Len(DecStr) : DecStr[i] = tok) - 1

\* str(value), as resolve_args and call_function apply it
Str(v) ==
    IF v.t = "str" THEN v.s
    ELSE IF v.t = "bool" THEN (IF v.n = 1 THEN "True" ELSE "False")
    ELSE DecStr[v.n + 1]

\* VariableStore.get(name, 0)
Get(store, name) == IF name \in DOMAIN store THEN store[name] ELSE IntV(0)

\* VariableStore.set(name, value)
Set(store, name, value) ==
    [x \in (DOMAIN store) \cup {name} |-> IF x = name THEN value ELSE store[x]]

\* expression._coerce: int, then bool words, else the raw string
Coerce(tok) ==
    IF IsIntTok(tok) THEN IntV(IntOfTok(tok))
    ELSE IF tok \in {"true", "TRUE", "True"} THEN BoolV(TRUE)
    ELSE IF tok \in {"false", "FALSE", "False"} THEN BoolV(FALSE)
    ELSE StrV(tok)

\* str.upper() on the first tokens the model uses
Upper(tok) ==
    CASE tok = "loop" -> "LOOP"
      [] tok = "endloop" -> "ENDLOOP"
      [] tok = "Else" -> "ELSE"
      [] tok = "endif" -> "ENDIF"
      [] tok = "print" -> "PRINT"
      [] tok = "pos" -> "POS"
      [] tok \in {"true", "True"} -> "TRUE"
      [] tok \in {"false", "False"} -> "FALSE"
      [] tok = "window_exists" -> "WINDOW_EXISTS"
      [] OTHER -> tok

(***************************************************************************)
(* expression.eval_expr on several tokens: the tokens are joined, AND, OR  *)
(* and NOT become the Python keywords, every variable is replaced by the   *)
(* literal of its value (_sub_vars; the model keeps variables that hold    *)
(* numbers non-negative), and Python compiles and evaluates the text.      *)
(* Compiling is parse_*, by the grammar of Python expressions over these   *)
(* tokens; evaluating is py_eval.  An exception is a string, "none" if the *)
(* evaluation returned.                                                    *)
(***************************************************************************)
\* line 97-99
Keyword(tok) ==
    CASE tok \in {"AND", "and", "And"} -> "and"
      [] tok \in {"OR", "or", "Or"} -> "or"
      [] tok \in {"NOT", "not", "Not"} -> "not"
      [] OTHER -> tok

\* bare words that are Python identifiers
Names == {"abc", "word", "lit", "true", "false", "x", "callee", "TRUE", "FALSE"}
CmpOps == {"==", "!=", "<", ">", "<=", ">="}

\* the literal a token stands for in the text after _sub_vars
IsLiteral(tok) == IsVar(tok) \/ IsIntTok(tok) \/ tok \in {"True", "False"}
Literal(tok, store) ==
    IF IsVar(tok) THEN Get(store, tok)
    ELSE IF IsIntTok(tok) THEN IntV(IntOfTok(tok))
    ELSE BoolV(tok = "True")
IsStrLiteral(tok, store) == IsVar(tok) /\ Get(store, tok).t = "str"

Tree(ok, node, pos) == [ok |-> ok, node |-> node, pos |-> pos]
NoTree == Tree(FALSE, <<>>, 0)
Lit(val) == [op |-> "lit", val |-> val]
Unary(op, a) == [op |-> op, a |-> a]
Binary(op, a, b) == [op |-> op, a |-> a, b |-> b]

RECURSIVE parse_strings(_, _, _, _)
RECURSIVE parse_factor(_, _, _)
RECURSIVE parse_term_rest(_, _, _)
RECURSIVE parse_arith_rest(_, _, _)
RECURSIVE parse_cmp_rest(_, _, _, _, _)
RECURSIVE parse_not(_, _, _)
RECURSIVE parse_and_rest(_, _, _)
RECURSIVE parse_or_rest(_, _, _)

\* the element of a set of one element: an operand is bound to its value,
\* v \in {e}, where it is used several times
Only(S) == CHOOSE v \in S : TRUE

\* an operator applied to the operand r, a binary one to the operands l and r
Applied(op, r) == IF r.ok THEN Tree(TRUE, Unary(op, r.node), r.pos) ELSE NoTree
Joined(op, l, r) == IF r.ok THEN Tree(TRUE, Binary(op, l.node, r.node), r.pos) ELSE NoTree

\* adjacent string literals are one string
parse_strings(t, i, store, acc) ==
    IF i <= Len(t) /\ IsStrLiteral(t[i], store)
    THEN parse_strings(t, i + 1, store, acc \o Get(store, t[i]).s)
    ELSE Tree(TRUE, Lit(StrV(acc)), i)

parse_atom(t, i, store) ==
    IF i > Len(t) THEN NoTree
    ELSE IF IsStrLiteral(t[i], store) THEN parse_strings(t, i, store, "")
    ELSE IF IsLiteral(t[i]) THEN Tree(TRUE, Lit(Literal(t[i], store)), i + 1)
    ELSE IF t[i] \in Names THEN Tree(TRUE, [op |-> "name"], i + 1)
    ELSE NoTree

parse_factor(t, i, store) ==
    IF i <= Len(t) /\ t[i] \in {"-", "+"}
    THEN Only({Applied(IF t[i] = "-" THEN "neg" ELSE "pos", r) :
                  r \in {parse_factor(t, i + 1, store)}})
    ELSE parse_atom(t, i, store)

\* l is what is parsed so far; the operators of one level associate to the left
parse_term_rest(t, store, l) ==
    IF ~l.ok THEN NoTree
    ELSE IF l.pos <= Len(t) /\ t[l.pos] \in {"*", "//"}
    THEN Only({parse_term_rest(t, store, j) :
                  j \in {Joined(t[l.pos], l, r) : r \in {parse_factor(t, l.pos + 1, store)}}})
    ELSE l

parse_term(t, i, store) ==
    Only({parse_term_rest(t, store, l) : l \in {parse_factor(t, i, store)}})

parse_arith_rest(t, store, l) ==
    IF ~l.ok THEN NoTree
    ELSE IF l.pos <= Len(t) /\ t[l.pos] \in {"+", "-"}
    THEN Only({parse_arith_rest(t, store, j) :
                  j \in {Joined(t[l.pos], l, r) : r \in {parse_term(t, l.pos + 1, store)}}})
    ELSE l

parse_arith(t, i, store) ==
    Only({parse_arith_rest(t, store, l) : l \in {parse_term(t, i, store)}})

\* a comparison is a chain: a first operand and (operator, operand) pairs
parse_cmp_more(t, store, first, rest, op, r) ==
    IF r.ok
    THEN parse_cmp_rest(t, r.pos, store, first, Append(rest, [op |-> op, a |-> r.node]))
    ELSE NoTree

parse_cmp_rest(t, i, store, first, rest) ==
    IF i <= Len(t) /\ t[i] \in CmpOps
    THEN Only({parse_cmp_more(t, store, first, rest, t[i], r) :
                  r \in {parse_arith(t, i + 1, store)}})
    ELSE Tree(TRUE, IF rest = <<>> THEN first
                    ELSE [op |-> "cmp", a |-> first, rest |-> rest], i)

parse_cmp_first(t, store, l) ==
    IF l.ok THEN parse_cmp_rest(t, l.pos, store, l.node, <<>>) ELSE NoTree

parse_cmp(t, i, store) ==
    Only({parse_cmp_first(t, store, l) : l \in {parse_arith(t, i, store)}})

parse_not(t, i, store) ==
    IF i <= Len(t) /\ t[i] = "not"
    THEN Only({Applied("not", r) : r \in {parse_not(t, i + 1, store)}})
    ELSE parse_cmp(t, i, store)

parse_and_rest(t, store, l) ==
    IF ~l.ok THEN NoTree
    ELSE IF l.pos <= Len(t) /\ t[l.pos] = "and"
    THEN Only({parse_and_rest(t, store, j) :
                  j \in {Joined("and", l, r) : r \in {parse_not(t, l.pos + 1, store)}}})
    ELSE l

parse_and(t, i, store) ==
    Only({parse_and_rest(t, store, l) : l \in {parse_not(t, i, store)}})

parse_or_rest(t, store, l) ==
    IF ~l.ok THEN NoTree
    ELSE IF l.pos <= Len(t) /\ t[l.pos] = "or"
    THEN Only({parse_or_rest(t, store, j) :
                  j \in {Joined("or", l, r) : r \in {parse_and(t, l.pos + 1, store)}}})
    ELSE l

\* the whole text must be one expression
parse_whole(t, r) == IF r.ok /\ r.pos = Len(t) + 1 THEN r ELSE NoTree

\* compile(expr, "<macro_expr>", "eval")
py_compile(t, store) ==
    Only({parse_whole(t, r) :
            r \in {parse_or_rest(t, store, l) : l \in {parse_and(t, 1, store)}}})

Result(exc, val) == [exc |-> exc, val |-> val]
Value(val) == Result("none", val)
Raise(exc) == Result(exc, IntV(0))
IsNum(v) == v.t \in {"int", "bool"}

\* Python's // on integers rounds down
FloorDiv(x, y) == IF y > 0 THEN x \div y ELSE (0 - x) \div (0 - y)

RECURSIVE StrTimes(_, _)
StrTimes(x, n) == IF n <= 0 THEN "" ELSE x \o StrTimes(x, n - 1)

py_arith(op, x, y) ==
    CASE op = "+" ->
            IF IsNum(x) /\ IsNum(y) THEN Value(IntV(x.n + y.n))
            ELSE IF x.t = "str" /\ y.t = "str" THEN Value(StrV(x.s \o y.s))
            ELSE Raise("TypeError")
      [] op = "-" ->
            IF IsNum(x) /\ IsNum(y) THEN Value(IntV(x.n - y.n)) ELSE Raise("TypeError")
      [] op = "*" ->
            IF IsNum(x) /\ IsNum(y) THEN Value(IntV(x.n * y.n))
            ELSE IF x.t = "str" /\ IsNum(y) THEN Value(StrV(StrTimes(x.s, y.n)))
            ELSE IF IsNum(x) /\ y.t = "str" THEN Value(StrV(StrTimes(y.s, x.n)))
            ELSE Raise("TypeError")
      [] op = "//" ->
            IF ~(IsNum(x) /\ IsNum(y)) THEN Raise("TypeError")
            ELSE IF y.n = 0 THEN Raise("ZeroDivisionError")
            ELSE Value(IntV(FloorDiv(x.n, y.n)))

\* the strings of the model are "" and repetitions of one word, which their length orders
Less(x, y) == IF x.t = "str" THEN Len(x.s) < Len(y.s) ELSE x.n < y.n
Same(x, y) == IF x.t = "str" THEN y.t = "str" /\ x.s = y.s ELSE y.t # "str" /\ x.n = y.n

py_compare(op, x, y) ==
    IF op = "==" THEN Value(BoolV(Same(x, y)))
    ELSE IF op = "!=" THEN Value(BoolV(~Same(x, y)))
    ELSE IF (x.t = "str") # (y.t = "str") THEN Raise("TypeError")
    ELSE CASE op = "<"  -> Value(BoolV(Less(x, y)))
           [] op = ">"  -> Value(BoolV(Less(y, x)))
           [] op = "<=" -> Value(BoolV(~Less(y, x)))
           [] op = ">=" -> Value(BoolV(~Less(x, y)))

RECURSIVE py_eval(_)
RECURSIVE py_chain(_, _, _)

\* x op1 y op2 z ...: left to right, false at the first comparison that fails
py_chain(left, rest, i) ==
    LET r == py_eval(rest[i].a)
        c == py_compare(rest[i].op, left, r.val)
    IN  IF r.exc # "none" THEN r
        ELSE IF c.exc # "none" \/ i = Len(rest) \/ ~Truthy(c.val) THEN c
        ELSE py_chain(r.val, rest, i + 1)

\* eval(code, _SAFE_GLOBALS, {}): no name is defined
py_eval(node) ==
    CASE node.op = "lit" -> Value(node.val)
      [] node.op = "name" -> Raise("NameError")
      [] node.op \in {"neg", "pos"} ->
            LET a == py_eval(node.a)
            IN  IF a.exc # "none" THEN a
                ELSE IF ~IsNum(a.val) THEN Raise("TypeError")
                ELSE Value(IntV(IF node.op = "neg" THEN 0 - a.val.n ELSE a.val.n))
      [] node.op = "not" ->
            LET a == py_eval(node.a)
            IN  IF a.exc # "none" THEN a ELSE Value(BoolV(~Truthy(a.val)))
      [] node.op = "and" ->
            LET a == py_eval(node.a)
            IN  IF a.exc # "none" \/ ~Truthy(a.val) THEN a ELSE py_eval(node.b)
      [] node.op = "or" ->
            LET a == py_eval(node.a)
            IN  IF a.exc # "none" \/ Truthy(a.val) THEN a ELSE py_eval(node.b)
      [] node.op = "cmp" ->
            LET a == py_eval(node.a)
            IN  IF a.exc # "none" THEN a ELSE py_chain(a.val, node.rest, 1)
      [] OTHER ->
            LET a == py_eval(node.a)
                b == py_eval(node.b)
            IN  IF a.exc # "none" THEN a
                ELSE IF b.exc # "none" THEN b
                ELSE py_arith(node.op, a.val, b.val)

\* line 103: eval(compile(...))
py_run(code) == IF code.ok THEN py_eval(code.node) ELSE Raise("SyntaxError")
eval_compile(tokens, store) ==
    Only({py_run(code) :
            code \in {py_compile([i \in 1..Len(tokens) |-> Keyword(tokens[i])], store)}})

\* variant of the handler that expects malformed text only
Handled_SyntaxOnly == {"SyntaxError", "NameError"}

\* line 105: the classes `except Exception` catches
Handled == {"SyntaxError", "NameError", "TypeError", "ZeroDivisionError"}

\* what a call gives: whether an exception leaves it, the value, how many warnings it logs
Ended(raised, val, warns) == [raised |-> raised, val |-> val, warns |-> warns]

\* line 102-107: the try around eval, r is what eval did
eval_try(r) ==
    IF r.exc = "none" THEN Ended(FALSE, r.val, 0)
    ELSE IF r.exc \in Handled THEN Ended(FALSE, IntV(0), 1)
    ELSE Ended(TRUE, IntV(0), 0)

\* expression.eval_expr, line 77-107
eval_expr_call(tokens, store) ==
    IF Len(tokens) = 0 THEN Ended(FALSE, IntV(0), 0)
    ELSE IF Len(tokens) = 1 THEN
        Ended(FALSE, IF IsVar(tokens[1]) THEN Get(store, tokens[1])
                       ELSE Coerce(tokens[1]), 0)
    ELSE Only({eval_try(r) : r \in {eval_compile(tokens, store)}})

\* expression.eval_expr: the value
eval_expr(tokens, store) == eval_expr_call(tokens, store).val

\* expression.eval_expr: whether it logs "Expression error"
eval_expr_warns(tokens, store) == eval_expr_call(tokens, store).warns > 0

(***************************************************************************)
(* condition.eval_condition.  env says which optional libraries the host   *)
(* has (HAS_CV: cv2 and numpy, HAS_MSS: mss, HAS_WIN32: win32gui); what    *)
(* the screen, the windows and the files show is open, so a call has a set *)
(* of outcomes.  The value of an outcome is the Boolean returned.          *)
(***************************************************************************)
PredicateNames == {"IMAGE_MATCH", "PIXEL_COLOR", "WINDOW_EXISTS", "FILE_EXISTS"}
Env(cv, mss, win32) == [cv |-> cv, mss |-> mss, win32 |-> win32]
Envs == {Env(cv, mss, win32) : cv \in BOOLEAN, mss \in BOOLEAN, win32 \in BOOLEAN}
Warned == Ended(FALSE, FALSE, 1)
Answered == {Ended(FALSE, b, 0) : b \in BOOLEAN}
\* mss is None: mss.mss() is an AttributeError
NoneType == {Ended(TRUE, FALSE, 0)}

\* _image_match, line 98-160: the template may be missing or unreadable, the
\* screen smaller than the template
image_match(args, env) ==
    IF ~env.cv \/ args = <<>> THEN {Warned}
    ELSE {Warned} \cup (IF env.mss THEN Answered ELSE NoneType)

\* _pixel_color, line 167-192
pixel_color(args, env) ==
    IF ~env.cv \/ Len(args) < 5 THEN {Warned}
    ELSE IF \E i \in 1..Len(args) : i <= 6 /\ ~IsIntTok(args[i]) THEN {Warned}
    ELSE IF env.mss THEN Answered ELSE NoneType

\* _window_exists, line 201-212
window_exists(args, env) ==
    IF ~env.win32 \/ args = <<>> THEN {Warned} ELSE Answered

\* _file_exists, line 219-224
file_exists(args) == IF args = <<>> THEN {Warned} ELSE Answered

\* variant that takes 1 and 0 for expressions
Literals_WordsOnly == [true |-> {"TRUE"}, false |-> {"FALSE"}]

\* line 70-73
Literals == [true |-> {"TRUE", "1"}, false |-> {"FALSE", "0"}]

\* line 84-91: `if result` on what eval_expr gave
truth(result) == Ended(result.raised, Truthy(result.val), result.warns)

\* variant that takes a literal for the answer only when it stands alone
eval_condition_call_WholeLine(tokens, store, env) ==
    IF tokens = <<>> THEN {Ended(FALSE, FALSE, 0)}
    ELSE LET func == Upper(tokens[1])
             args == Tail(tokens)
         IN  IF func \in Literals.true /\ args = <<>> THEN {Ended(FALSE, TRUE, 0)}
             ELSE IF func \in Literals.false /\ args = <<>> THEN {Ended(FALSE, FALSE, 0)}
             ELSE IF func = "IMAGE_MATCH" THEN image_match(args, env)
             ELSE IF func = "PIXEL_COLOR" THEN pixel_color(args, env)
             ELSE IF func = "WINDOW_EXISTS" THEN window_exists(args, env)
             ELSE IF func = "FILE_EXISTS" THEN file_exists(args)
             ELSE {truth(eval_expr_call(tokens, store))}

\* line 44-91
eval_condition_call(tokens, store, env) ==
    IF tokens = <<>> THEN {Ended(FALSE, FALSE, 0)}
    ELSE LET func == Upper(tokens[1])
             args == Tail(tokens)
         IN  IF func \in Literals.true THEN {Ended(FALSE, TRUE, 0)}
             ELSE IF func \in Literals.false THEN {Ended(FALSE, FALSE, 0)}
             ELSE IF func = "IMAGE_MATCH" THEN image_match(args, env)
             ELSE IF func = "PIXEL_COLOR" THEN pixel_color(args, env)
             ELSE IF func = "WINDOW_EXISTS" THEN window_exists(args, env)
             ELSE IF func = "FILE_EXISTS" THEN file_exists(args)
             ELSE {truth(eval_expr_call(tokens, store))}

\* the answers eval_condition can give the runner, on the hosts where it returns
eval_condition(tokens, store) ==
    {o.val : o \in {x \in UNION {eval_condition_call(tokens, store, e) : e \in Envs} :
                        ~x.raised}}

(***************************************************************************)
(* AST nodes (ast_nodes.py).                                               *)
(***************************************************************************)
CmdNode(tokens, line_num) ==
    [kind |-> "Cmd", tokens |-> tokens, line_num |-> line_num]
CallNode(filename, line_num) ==
    [kind |-> "Call", filename |-> filename, line_num |-> line_num]
AssignNode(var_name, rhs_tokens, line_num) ==
    [kind |-> "Assign", var_name |-> var_name, rhs_tokens |-> rhs_tokens,
     line_num |-> line_num]
IfNode(branches, else_body) ==
    [kind |-> "If", branches |-> branches, else_body |-> else_body]
LoopNode(count_expr, body) ==
    [kind |-> "Loop", count_expr |-> count_expr, body |-> body]
WhileNode(condition, body) ==
    [kind |-> "While", condition |-> condition, body |-> body]
RepeatNode(body, condition) ==
    [kind |-> "Repeat", body |-> body, condition |-> condition]
TryCatchNode(try_body, catch_body) ==
    [kind |-> "Try", try_body |-> try_body, catch_body |-> catch_body]
\* one (condition, body) pair of IfNode.branches
Branch(condition, body) == [condition |-> condition, body |-> body]
NoNode == [kind |-> "None"]

(***************************************************************************)
(* The executor (executor.py): which commands it knows and how a dispatch  *)
(* ends.  MOUSE_POS converts two arguments with int(): a missing argument  *)
(* is an IndexError, a non-number a ValueError.                            *)
(***************************************************************************)
FlowCommands == {"BREAK", "CONTINUE", "RETURN", "EXIT"}
\* the block keywords of _DISPATCH (429-439, 455-458), bound to _cmd_noop
Placeholders ==
    {"IF", "ELSEIF", "ELSE", "ENDIF", "LOOP", "ENDLOOP", "WHILE", "ENDWHILE",
     "REPEAT", "UNTIL", "CALL", "FUNCTION", "TRY", "CATCH", "ENDTRY"}
Dispatch ==
    {"WAIT", "PRINT", "KEY", "TYPE", "MOUSE_POS", "MOUSE_GET_POS"}
        \cup FlowCommands \cup Placeholders

\* line 461-462
is_commands(key) == key \in Dispatch

execute(cmd, args) ==
    IF cmd \notin Dispatch THEN "ValueError"
    ELSE IF cmd = "MOUSE_POS" THEN
        IF Len(args) < 2 THEN "Exception"
        ELSE IF IsIntTok(args[1]) /\ IsIntTok(args[2]) THEN "ok"
        ELSE "ValueError"
    ELSE "ok"

\* runner._resolve_args
RECURSIVE resolve_args(_, _)

\* variant that leaves the name of an unset variable in place
resolve_args_KeepsUnset(args, store) ==
    IF args = <<>> THEN <<>>
    ELSE <<IF IsVar(Head(args)) /\ Head(args) \in DOMAIN store
           THEN Str(store[Head(args)]) ELSE Head(args)>>
         \o resolve_args(Tail(args), store)

\* line 335-343
resolve_args(args, store) ==
    IF args = <<>> THEN <<>>
    ELSE <<IF IsVar(Head(args)) THEN Str(Get(store, Head(args))) ELSE Head(args)>>
         \o resolve_args(Tail(args), store)

\* pointer coordinates get_mouse_pos can report
MousePositions == {<<1, 2>>, <<3, 4>>}

(***************************************************************************)
(* Frames of the runner.  k names the Python function the frame is an      *)
(* activation of; pc is the place in it.                                   *)
(*   run    nodes, i (index of the current node), depth of its runner      *)
(*          pc: check (line 83), node (line 85), wait (inside _run_node)   *)
(*   if     node, i (branch under test), pc: cond, body                    *)
(*   loop   node, n (count), i (iterations begun), pc: top, body           *)
(*   while  node, i (iterations), pc: cond, stop, body                     *)
(*   repeat node, i (iterations), pc: top, body, until                     *)
(*   try    node, pc: try, catch                                           *)
(*   call   node, pc: callee                                               *)
(* depth and vs are _depth and _vars of the runner the frame belongs to.   *)
(***************************************************************************)
Frame(k, node, nodes, i, pc, depth, n, vs) ==
    [k |-> k, node |-> node, nodes |-> nodes, i |-> i, pc |-> pc,
     depth |-> depth, n |-> n, vs |-> vs]
RunFrame(nodes, depth, vs) == Frame("run", NoNode, nodes, 1, "check", depth, 0, vs)

Top == stack[Len(stack)]
Pop == SubSeq(stack, 1, Len(stack) - 1)
SetTop(f) == [stack EXCEPT ![Len(stack)] = f]
\* self._vars of the runner whose code is executing
Vars == stores[Top.vs]
\* the store _PlaybackThread._cond_eval hands to eval_condition
CondVars == stores[1]
\* self._vars.set(name, value)
Assigned(name, value) == [stores EXCEPT ![Top.vs] = Set(@, name, value)]
Active == status = "running" /\ stack # <<>>
Normal == Active /\ sig = "none"

\* one entry of trace
Event(ev, name, args, line, depth, res, snap) ==
    [ev |-> ev, name |-> name, args |-> args, line |-> line, depth |-> depth,
     res |-> res, snap |-> snap, stopped |-> stop_event]
\* one entry of log
Msg(level, text) == [level |-> level, text |-> text]
NoSnap == <<>>

(***************************************************************************)
(* Script files under macros_dir, as _run_call finds them: state is ok,    *)
(* missing, unreadable or parse_error, and nodes is what build_ast gives   *)
(* for the text of an ok file.                                             *)
(***************************************************************************)
File(state, nodes) == [state |-> state, nodes |-> nodes]

\* which exceptions each handler of the runner stops
\* variant of the loop handlers without the _Continue clause
LoopCatches_NoContinue == {"Break"}
LoopCatches == {"Break", "Continue"}
\* variants of the pass-through list with one exception missing
TryPassThrough_NoExit == {"Break", "Continue", "Return"}
TryPassThrough_NoBreak == {"Continue", "Return", "Exit"}
TryPassThrough == {"Break", "Continue", "Return", "Exit"}
\* variant of _run_call without the _Return clause
CallCatches_None == {}
\* variant of _run_call that also stops _Break and _Continue
CallCatches_Flow == {"Return", "Break", "Continue"}
CallCatches == {"Return"}

\* whether the frame f stops the exception s or lets it pass
Handles(f, s) ==
    \/ f.k \in {"loop", "while", "repeat"} /\ f.pc = "body" /\ s \in LoopCatches
    \/ f.k = "try" /\ f.pc = "try" /\ s \notin TryPassThrough
    \/ f.k = "call" /\ s \in CallCatches

\* the result of int(value) on a LOOP count: ok and the number
IntOf(v) ==
    IF v.t # "str" THEN [ok |-> TRUE, n |-> v.n]
    ELSE IF IsIntTok(v.s) THEN [ok |-> TRUE, n |-> IntOfTok(v.s)]
    ELSE [ok |-> FALSE, n |-> 1]

(***************************************************************************)
(* expression.call_function: the outcomes of `$var = FUNCTION args`.       *)
(* raised: an exception leaves call_function; warn: it logs a warning.     *)
(***************************************************************************)
FUNCTION_NAMES == PredicateNames \cup {"GET_TIME", "RANDOM", "CLIPBOARD_GET", "GET_PIXEL_COLOR"}
Outcome(raised, val, warn) == [raised |-> raised, val |-> val, warn |-> warn]

call_function(rhs, store, mss) ==
    LET fname == rhs[1]
        resolved == resolve_args(Tail(rhs), store)
        ints == Len(resolved) >= 2 /\ IsIntTok(resolved[1]) /\ IsIntTok(resolved[2])
    IN  CASE fname = "GET_TIME" -> {Outcome(FALSE, IntV(7), FALSE)}
          [] fname = "RANDOM" ->
                IF ints /\ IntOfTok(resolved[1]) <= IntOfTok(resolved[2])
                THEN {Outcome(FALSE, IntV(k), FALSE) :
                        k \in IntOfTok(resolved[1])..IntOfTok(resolved[2])}
                ELSE {Outcome(FALSE, IntV(0), TRUE)}
          [] fname = "CLIPBOARD_GET" ->
                {Outcome(FALSE, StrV("clip"), FALSE), Outcome(FALSE, StrV(""), TRUE)}
          [] fname = "GET_PIXEL_COLOR" ->
                IF ~mss \/ Len(resolved) < 2 THEN {Outcome(FALSE, StrV("0 0 0"), TRUE)}
                ELSE IF ~ints THEN {Outcome(TRUE, IntV(0), FALSE)}
                ELSE {Outcome(FALSE, StrV("9 9 9"), FALSE)}
          [] OTHER -> {Outcome(FALSE, BoolV(b), FALSE) : b \in BOOLEAN}

(***************************************************************************)
(* ASTRunner.run: the loop over one body.                                  *)
(***************************************************************************)
\* variant of run that starts every node without looking at the flag
RunCheck_NoStopCheck ==
    /\ Normal /\ Top.k = "run" /\ Top.pc = "check" /\ Top.i <= Len(Top.nodes)
    /\ sig' = sig /\ stack' = SetTop([Top EXCEPT !.pc = "node"])
    /\ UNCHANGED <<prog, hasMss, stores, stop_event, trace, log, status>>
    /\ UNCHANGED ovars

\* line 83-84: the stop check before a node
RunCheck ==
    /\ Normal /\ Top.k = "run" /\ Top.pc = "check" /\ Top.i <= Len(Top.nodes)
    /\ IF stop_event
       THEN sig' = "Exit" /\ stack' = stack
       ELSE sig' = sig /\ stack' = SetTop([Top EXCEPT !.pc = "node"])
    /\ UNCHANGED <<prog, hasMss, stores, stop_event, trace, log, status>>
    /\ UNCHANGED ovars

\* line 82: the node list is exhausted, run returns to its caller
RunReturn ==
    /\ Normal /\ Top.k = "run" /\ Top.pc = "check" /\ Top.i > Len(Top.nodes)
    /\ stack' = Pop
    /\ UNCHANGED <<prog, hasMss, sig, stores, stop_event, trace, log, status>>
    /\ UNCHANGED ovars

\* line 85: _run_node of a block node or a Call has returned
RunAdvance ==
    /\ Normal /\ Top.k = "run" /\ Top.pc = "wait"
    /\ stack' = SetTop([Top EXCEPT !.pc = "check", !.i = @ + 1])
    /\ UNCHANGED <<prog, hasMss, sig, stores, stop_event, trace, log, status>>
    /\ UNCHANGED ovars

\* the node that run is about to hand to _run_node
AtNode(kind) ==
    /\ Normal /\ Top.k = "run" /\ Top.pc = "node"
    /\ Top.nodes[Top.i].kind = kind
Node == Top.nodes[Top.i]
\* variant of run that leaves out the node after the one that has returned
Advanced_SkipsNext == SetTop([Top EXCEPT !.pc = "check", !.i = @ + 2])

\* the run frame once a leaf node has returned
Advanced == SetTop([Top EXCEPT !.pc = "check", !.i = @ + 1])
\* the run frame while _run_node is inside a block node, below its frames
Waiting == SetTop([Top EXCEPT !.pc = "wait"])

(***************************************************************************)
(* ASTRunner._run_cmd, with _run_mouse_get_pos.                            *)
(***************************************************************************)
FlowSignal(cmd) ==
    CASE cmd = "BREAK" -> "Break"
      [] cmd = "CONTINUE" -> "Continue"
      [] cmd = "RETURN" -> "Return"
      [] cmd = "EXIT" -> "Exit"

\* what the except clauses of _run_cmd do with an exception of the executor:
\* the exception that leaves _run_cmd ("none": it is swallowed)
CmdRaises(outcome) == "none"

RunCmd ==
    /\ AtNode("Cmd")
    /\ LET cmd == Node.tokens[1]
           args == Tail(Node.tokens)
           resolved == resolve_args(args, Vars)
           ev(res, snap) == Event("cmd", cmd, resolved, Node.line_num, Top.depth, res, snap)
       IN  IF cmd \in FlowCommands THEN
                /\ sig' = FlowSignal(cmd)
                /\ trace' = Append(trace, ev("flow", NoSnap))
                /\ UNCHANGED <<stack, stores, log>>
           ELSE IF cmd = "MOUSE_GET_POS" THEN
                \E pos \in MousePositions :
                    LET v1 == IF Len(args) >= 1 /\ IsVar(args[1])
                              THEN Set(Vars, args[1], IntV(pos[1])) ELSE Vars
                        v2 == IF Len(args) >= 2 /\ IsVar(args[2])
                              THEN Set(v1, args[2], IntV(pos[2])) ELSE v1
                    IN  /\ stores' = [stores EXCEPT ![Top.vs] = v2]
                        /\ trace' = Append(trace, ev("getpos", v2))
                        /\ log' = log
                              \o (IF Len(args) >= 1 /\ IsVar(args[1])
                                  THEN <<Msg("INFO", "var = value")>> ELSE <<>>)
                              \o (IF Len(args) >= 2 /\ IsVar(args[2])
                                  THEN <<Msg("INFO", "var = value")>> ELSE <<>>)
                        /\ stack' = Advanced
                        /\ sig' = sig
           ELSE LET outcome == execute(cmd, resolved)
                IN  /\ trace' = Append(trace, ev(outcome, NoSnap))
                    /\ log' = IF outcome = "ValueError"
                                THEN Append(log, Msg("WARNING", "command failed"))
                              ELSE IF outcome = "Exception"
                                THEN Append(log, Msg("ERROR", "command failed"))
                              ELSE log
                    /\ sig' = IF outcome = "ok" THEN "none" ELSE CmdRaises(outcome)
                    /\ stack' = IF outcome = "ok" \/ CmdRaises(outcome) = "none"
                                THEN Advanced ELSE stack
                    /\ stores' = stores
    /\ UNCHANGED <<prog, hasMss, stop_event, status>>
    /\ UNCHANGED ovars

(***************************************************************************)
(* ASTRunner._run_assign.  The event records the snapshot handed to        *)
(* vars_changed_fn, or NoSnap when the observer is not called.             *)
(***************************************************************************)
RunAssign ==
    /\ AtNode("Assign")
    /\ LET rhs == Node.rhs_tokens
           ev(res, snap) == Event("assign", Node.var_name, rhs, Node.line_num,
                                  Top.depth, res, snap)
       IN  IF rhs = <<>> THEN
                /\ stores' = Assigned(Node.var_name, IntV(0))
                /\ trace' = Append(trace, ev("ok", NoSnap))
                /\ stack' = Advanced
                /\ UNCHANGED <<sig, log>>
           ELSE IF rhs[1] \in FUNCTION_NAMES THEN
                \E o \in call_function(rhs, Vars, hasMss) :
                    IF o.raised THEN
                        /\ sig' = "Error"
                        /\ trace' = Append(trace, ev("raised", NoSnap))
                        /\ UNCHANGED <<stack, stores, log>>
                    ELSE
                        /\ stores' = Assigned(Node.var_name, o.val)
                        /\ trace' = Append(trace,
                                ev("ok", Set(Vars, Node.var_name, o.val)))
                        /\ log' = (IF o.warn THEN Append(log, Msg("WARNING", "function"))
                                   ELSE log) \o <<Msg("INFO", "var = value")>>
                        /\ stack' = Advanced
                        /\ sig' = sig
           ELSE LET value == eval_expr(rhs, Vars)
                IN  /\ stores' = Assigned(Node.var_name, value)
                    /\ trace' = Append(trace, ev("ok", Set(Vars, Node.var_name, value)))
                    /\ log' = (IF eval_expr_warns(rhs, Vars)
                               THEN Append(log, Msg("WARNING", "Expression error"))
                               ELSE log) \o <<Msg("INFO", "var = value")>>
                    /\ stack' = Advanced
                    /\ sig' = sig
    /\ UNCHANGED <<prog, hasMss, stop_event, status>>
    /\ UNCHANGED ovars

(***************************************************************************)
(* Evaluation of a condition by cond_fn: the event and the messages.       *)
(***************************************************************************)
CondEvent(tokens, b, depth) ==
    Event("cond", IF tokens = <<>> THEN "" ELSE tokens[1], tokens, -1, depth,
          IF b THEN "true" ELSE "false", NoSnap)
CondLog(tokens) ==
    IF /\ tokens # <<>>
       /\ tokens[1] \notin {"TRUE", "true", "True", "1", "FALSE", "false", "False", "0"}
       /\ tokens[1] \notin PredicateNames
       /\ eval_expr_warns(tokens, CondVars)
    THEN <<Msg("WARNING", "Expression error")>> ELSE <<>>

(***************************************************************************)
(* ASTRunner._run_if                                                       *)
(***************************************************************************)
RunIf ==
    /\ AtNode("If")
    /\ stack' = Append(Waiting, Frame("if", Node, <<>>, 1, "cond", Top.depth, 0, Top.vs))
    /\ UNCHANGED <<prog, hasMss, sig, stores, stop_event, trace, log, status>>
    /\ UNCHANGED ovars

\* line 189-192: test the next branch; run its body when the condition holds
IfCond ==
    /\ Normal /\ Top.k = "if" /\ Top.pc = "cond" /\ Top.i <= Len(Top.node.branches)
    /\ LET br == Top.node.branches[Top.i]
       IN  \E b \in eval_condition(br.condition, CondVars) :
            /\ trace' = Append(trace, CondEvent(br.condition, b, Top.depth))
            /\ log' = log \o CondLog(br.condition)
            /\ stack' = IF b
                        THEN Append(SetTop([Top EXCEPT !.pc = "body"]),
                                    RunFrame(br.body, Top.depth, Top.vs))
                        ELSE SetTop([Top EXCEPT !.i = @ + 1])
    /\ UNCHANGED <<prog, hasMss, sig, stores, stop_event, status>>
    /\ UNCHANGED ovars

\* line 193-194: no branch matched
IfElse ==
    /\ Normal /\ Top.k = "if" /\ Top.pc = "cond" /\ Top.i > Len(Top.node.branches)
    /\ stack' = IF Top.node.else_body # <<>>
                THEN Append(SetTop([Top EXCEPT !.pc = "body"]),
                            RunFrame(Top.node.else_body, Top.depth, Top.vs))
                ELSE Pop
    /\ UNCHANGED <<prog, hasMss, sig, stores, stop_event, trace, log, status>>
    /\ UNCHANGED ovars

\* variant of _run_if without the return after a matched branch
IfReturn_NextBranch ==
    /\ Normal /\ Top.k = "if" /\ Top.pc = "body"
    /\ stack' = SetTop([Top EXCEPT !.pc = "cond", !.i = @ + 1])
    /\ UNCHANGED <<prog, hasMss, sig, stores, stop_event, trace, log, status>>
    /\ UNCHANGED ovars

\* the body that was run has returned: _run_if returns
IfReturn ==
    /\ Normal /\ Top.k = "if" /\ Top.pc = "body"
    /\ stack' = Pop
    /\ UNCHANGED <<prog, hasMss, sig, stores, stop_event, trace, log, status>>
    /\ UNCHANGED ovars

(***************************************************************************)
(* ASTRunner._run_loop                                                     *)
(***************************************************************************)
\* line 203-207: the count, evaluated once
RunLoop ==
    /\ AtNode("Loop")
    /\ LET c == IntOf(eval_expr(<<Node.count_expr>>, Vars))
       IN  /\ stack' = Append(Waiting, Frame("loop", Node, <<>>, 0, "top", Top.depth, c.n, Top.vs))
           /\ log' = IF c.ok THEN log ELSE Append(log, Msg("WARNING", "LOOP: invalid count"))
    /\ UNCHANGED <<prog, hasMss, sig, stores, stop_event, trace, status>>
    /\ UNCHANGED ovars

\* variant of the loop that evaluates count_expr again before every iteration
LoopCount_Reevaluated(f, store) == IntOf(eval_expr(<<f.node.count_expr>>, store)).n

\* line 209: range(count) is built from the count taken at loop entry
LoopCount(f, store) == f.n

\* line 209-213: the next iteration, or the end of range(count)
LoopTop ==
    /\ Normal /\ Top.k = "loop" /\ Top.pc = "top"
    /\ IF Top.i >= LoopCount(Top, Vars) THEN stack' = Pop /\ sig' = sig
       ELSE IF stop_event THEN stack' = stack /\ sig' = "Exit"
       ELSE /\ stack' = Append(SetTop([Top EXCEPT !.pc = "body"]),
                               RunFrame(Top.node.body, Top.depth, Top.vs))
            /\ sig' = sig
    /\ UNCHANGED <<prog, hasMss, stores, stop_event, trace, log, status>>
    /\ UNCHANGED ovars

\* the body returned, or line 216-217 caught _Continue
LoopNext == [Top EXCEPT !.pc = "top", !.i = @ + 1]

LoopBodyDone ==
    /\ Normal /\ Top.k = "loop" /\ Top.pc = "body"
    /\ stack' = SetTop(LoopNext)
    /\ UNCHANGED <<prog, hasMss, sig, stores, stop_event, trace, log, status>>
    /\ UNCHANGED ovars

(***************************************************************************)
(* ASTRunner._run_while                                                    *)
(***************************************************************************)
RunWhile ==
    /\ AtNode("While")
    /\ stack' = Append(Waiting, Frame("while", Node, <<>>, 0, "cond", Top.depth, 0, Top.vs))
    /\ UNCHANGED <<prog, hasMss, sig, stores, stop_event, trace, log, status>>
    /\ UNCHANGED ovars

\* line 225: the pre-test
WhileCond ==
    /\ Normal /\ Top.k = "while" /\ Top.pc = "cond"
    /\ \E b \in eval_condition(Top.node.condition, CondVars) :
        /\ trace' = Append(trace, CondEvent(Top.node.condition, b, Top.depth))
        /\ log' = log \o CondLog(Top.node.condition)
        /\ stack' = IF b THEN SetTop([Top EXCEPT !.pc = "stop"]) ELSE Pop
    /\ UNCHANGED <<prog, hasMss, sig, stores, stop_event, status>>
    /\ UNCHANGED ovars

\* variant of _run_while whose ceiling test lets one more iteration through
WhileBody_LateCeiling ==
    /\ Normal /\ Top.k = "while" /\ Top.pc = "stop"
    /\ IF stop_event THEN stack' = stack /\ sig' = "Exit" /\ log' = log
       ELSE IF Top.i > MAX_ITERATIONS THEN
            /\ stack' = Pop /\ sig' = sig
            /\ log' = Append(log, Msg("WARNING", "WHILE: iteration limit"))
       ELSE /\ stack' = Append(SetTop([Top EXCEPT !.pc = "body"]),
                               RunFrame(Top.node.body, Top.depth, Top.vs))
            /\ sig' = sig /\ log' = log
    /\ UNCHANGED <<prog, hasMss, stores, stop_event, trace, status>>
    /\ UNCHANGED ovars

\* variant of _run_while that stays at its ceiling test once the ceiling is
\* reached
WhileBody_StaysAtCeiling ==
    /\ Normal /\ Top.k = "while" /\ Top.pc = "stop"
    /\ IF stop_event THEN stack' = stack /\ sig' = "Exit" /\ log' = log
       ELSE IF Top.i >= MAX_ITERATIONS THEN
            /\ stack' = stack /\ sig' = sig /\ log' = log
       ELSE /\ stack' = Append(SetTop([Top EXCEPT !.pc = "body"]),
                               RunFrame(Top.node.body, Top.depth, Top.vs))
            /\ sig' = sig /\ log' = log
    /\ UNCHANGED <<prog, hasMss, stores, stop_event, trace, status>>
    /\ UNCHANGED ovars

\* line 226-232: stop check, ceiling, then the body
WhileBody ==
    /\ Normal /\ Top.k = "while" /\ Top.pc = "stop"
    /\ IF stop_event THEN stack' = stack /\ sig' = "Exit" /\ log' = log
       ELSE IF Top.i >= MAX_ITERATIONS THEN
            /\ stack' = Pop /\ sig' = sig
            /\ log' = Append(log, Msg("WARNING", "WHILE: iteration limit"))
       ELSE /\ stack' = Append(SetTop([Top EXCEPT !.pc = "body"]),
                               RunFrame(Top.node.body, Top.depth, Top.vs))
            /\ sig' = sig /\ log' = log
    /\ UNCHANGED <<prog, hasMss, stores, stop_event, trace, status>>
    /\ UNCHANGED ovars

\* line 237, reached after the body or after _Continue was caught
WhileNext == [Top EXCEPT !.pc = "cond", !.i = @ + 1]

WhileBodyDone ==
    /\ Normal /\ Top.k = "while" /\ Top.pc = "body"
    /\ stack' = SetTop(WhileNext)
    /\ UNCHANGED <<prog, hasMss, sig, stores, stop_event, trace, log, status>>
    /\ UNCHANGED ovars

(***************************************************************************)
(* ASTRunner._run_repeat                                                   *)
(***************************************************************************)
\* variant of _run_repeat that tests the condition before the first body
RunRepeat_PreTest ==
    /\ AtNode("Repeat")
    /\ stack' = Append(Waiting, Frame("repeat", Node, <<>>, 0, "until", Top.depth, 0, Top.vs))
    /\ UNCHANGED <<prog, hasMss, sig, stores, stop_event, trace, log, status>>
    /\ UNCHANGED ovars

\* line 243-244: _run_repeat is entered
RunRepeat ==
    /\ AtNode("Repeat")
    /\ stack' = Append(Waiting, Frame("repeat", Node, <<>>, 0, "top", Top.depth, 0, Top.vs))
    /\ UNCHANGED <<prog, hasMss, sig, stores, stop_event, trace, log, status>>
    /\ UNCHANGED ovars

\* line 246-252: stop check, ceiling, then the body
RepeatTop ==
    /\ Normal /\ Top.k = "repeat" /\ Top.pc = "top"
    /\ IF stop_event THEN stack' = stack /\ sig' = "Exit" /\ log' = log
       ELSE IF Top.i >= MAX_ITERATIONS THEN
            /\ stack' = Pop /\ sig' = sig
            /\ log' = Append(log, Msg("WARNING", "REPEAT: iteration limit"))
       ELSE /\ stack' = Append(SetTop([Top EXCEPT !.pc = "body"]),
                               RunFrame(Top.node.body, Top.depth, Top.vs))
            /\ sig' = sig /\ log' = log
    /\ UNCHANGED <<prog, hasMss, stores, stop_event, trace, status>>
    /\ UNCHANGED ovars

\* the body returned, or line 255-256 caught _Continue: on to the post-test
RepeatNext == [Top EXCEPT !.pc = "until"]

RepeatBodyDone ==
    /\ Normal /\ Top.k = "repeat" /\ Top.pc = "body"
    /\ stack' = SetTop(RepeatNext)
    /\ UNCHANGED <<prog, hasMss, sig, stores, stop_event, trace, log, status>>
    /\ UNCHANGED ovars

\* line 257-259: the post-test
RepeatUntil ==
    /\ Normal /\ Top.k = "repeat" /\ Top.pc = "until"
    /\ \E b \in eval_condition(Top.node.condition, CondVars) :
        /\ trace' = Append(trace, CondEvent(Top.node.condition, b, Top.depth))
        /\ log' = log \o CondLog(Top.node.condition)
        /\ stack' = IF b THEN Pop ELSE SetTop([Top EXCEPT !.pc = "top", !.i = @ + 1])
    /\ UNCHANGED <<prog, hasMss, sig, stores, stop_event, status>>
    /\ UNCHANGED ovars

(***************************************************************************)
(* ASTRunner._run_try                                                      *)
(***************************************************************************)
RunTry ==
    /\ AtNode("Try")
    /\ stack' = Waiting \o <<Frame("try", Node, <<>>, 0, "try", Top.depth, 0, Top.vs),
                             RunFrame(Node.try_body, Top.depth, Top.vs)>>
    /\ UNCHANGED <<prog, hasMss, sig, stores, stop_event, trace, log, status>>
    /\ UNCHANGED ovars

\* the try body, or the catch body, returned: _run_try returns
TryReturn ==
    /\ Normal /\ Top.k = "try"
    /\ stack' = Pop
    /\ UNCHANGED <<prog, hasMss, sig, stores, stop_event, trace, log, status>>
    /\ UNCHANGED ovars

(***************************************************************************)
(* ASTRunner._run_call                                                     *)
(***************************************************************************)
\* variant of the depth test that lets depth MAX_CALL_DEPTH call once more
CallRefusal_OffByOne(depth, filename, files) ==
    IF depth > MAX_CALL_DEPTH THEN <<Msg("ERROR", "CALL: depth limit")>>
    ELSE IF filename = "" THEN <<Msg("WARNING", "CALL: missing filename")>>
    ELSE IF filename \notin DOMAIN files \/ files[filename].state = "missing"
        THEN <<Msg("WARNING", "CALL: file not found")>>
    ELSE IF files[filename].state = "unreadable" THEN <<Msg("ERROR", "CALL: cannot read")>>
    ELSE IF files[filename].state = "parse_error" THEN <<Msg("ERROR", "CALL: parse error")>>
    ELSE <<>>

\* line 280-310: the reasons not to run the callee, as (level, text), or <<>>
CallRefusal(depth, filename, files) ==
    IF depth >= MAX_CALL_DEPTH THEN <<Msg("ERROR", "CALL: depth limit")>>
    ELSE IF filename = "" THEN <<Msg("WARNING", "CALL: missing filename")>>
    ELSE IF filename \notin DOMAIN files \/ files[filename].state = "missing"
        THEN <<Msg("WARNING", "CALL: file not found")>>
    ELSE IF files[filename].state = "unreadable" THEN <<Msg("ERROR", "CALL: cannot read")>>
    ELSE IF files[filename].state = "parse_error" THEN <<Msg("ERROR", "CALL: parse error")>>
    ELSE <<>>

(***************************************************************************)
(* The AST builder (ast_builder.py).  The cursor pos is _Builder._pos,     *)
(* 0-based; a parse function gives the nodes it built, the cursor it left  *)
(* and err, the 1-based source line of a ParseError it raised, or 0.       *)
(***************************************************************************)
\* variant of the terminator set that has forgotten ELSE
BLOCK_TERMINATORS_NoElse ==
    {"ENDLOOP", "ENDWHILE", "UNTIL", "ELSEIF", "ENDIF", "CATCH", "ENDTRY"}

BLOCK_TERMINATORS ==
    {"ENDLOOP", "ENDWHILE", "UNTIL", "ELSEIF", "ELSE", "ENDIF", "CATCH", "ENDTRY"}

\* str.strip("\"'") on a CALL argument
StripQuotes(tok) ==
    CASE tok = "'sub'" -> "sub"
      [] tok = "'broken'" -> "broken"
      [] tok = "\"sub\"" -> "sub"
      [] OTHER -> tok

Parsed(nodes, pos, err) == [nodes |-> nodes, pos |-> pos, err |-> err]

at_end(lines, pos) == pos >= Len(lines)
peek(lines, pos) == IF at_end(lines, pos) THEN "" ELSE Upper(lines[pos + 1][1])
\* the cursor after an optional closing keyword
Closed(lines, pos, kw) ==
    IF ~at_end(lines, pos) /\ peek(lines, pos) = kw THEN pos + 1 ELSE pos

RECURSIVE parse_block(_, _, _)
RECURSIVE dispatch(_, _)
RECURSIVE parse_elseif(_, _, _)

parse_assign(lines, pos) ==
    LET tokens == lines[pos + 1]
    IN  Parsed(<<AssignNode(tokens[1], SubSeq(tokens, 3, Len(tokens)), pos)>>, pos + 1, 0)

\* variant that keeps the body of a LOOP only when ENDLOOP closes it
parse_loop_DropsOpenBody(lines, pos) ==
    LET tokens == lines[pos + 1]
        count == IF Len(tokens) > 1 THEN tokens[2] ELSE "1"
        body == parse_block(lines, pos + 1, {"ENDLOOP"})
        closed == ~at_end(lines, body.pos) /\ peek(lines, body.pos) = "ENDLOOP"
    IN  IF body.err # 0 THEN body
        ELSE Parsed(<<LoopNode(count, IF closed THEN body.nodes ELSE <<>>)>>,
                    Closed(lines, body.pos, "ENDLOOP"), 0)

\* variant that stores the last token of the LOOP line
parse_loop_LastToken(lines, pos) ==
    LET tokens == lines[pos + 1]
        count == tokens[Len(tokens)]
        body == parse_block(lines, pos + 1, {"ENDLOOP"})
    IN  IF body.err # 0 THEN body
        ELSE Parsed(<<LoopNode(count, body.nodes)>>, Closed(lines, body.pos, "ENDLOOP"), 0)

\* line 116-123
parse_loop(lines, pos) ==
    LET tokens == lines[pos + 1]
        count == IF Len(tokens) > 1 THEN tokens[2] ELSE "1"
        body == parse_block(lines, pos + 1, {"ENDLOOP"})
    IN  IF body.err # 0 THEN body
        ELSE Parsed(<<LoopNode(count, body.nodes)>>, Closed(lines, body.pos, "ENDLOOP"), 0)

parse_while(lines, pos) ==
    LET cond == Tail(lines[pos + 1])
        body == parse_block(lines, pos + 1, {"ENDWHILE"})
    IN  IF body.err # 0 THEN body
        ELSE Parsed(<<WhileNode(cond, body.nodes)>>, Closed(lines, body.pos, "ENDWHILE"), 0)

parse_repeat(lines, pos) ==
    LET body == parse_block(lines, pos + 1, {"UNTIL"})
        closed == ~at_end(lines, body.pos) /\ peek(lines, body.pos) = "UNTIL"
        cond == IF closed THEN Tail(lines[body.pos + 1]) ELSE <<>>
    IN  IF body.err # 0 THEN body
        ELSE Parsed(<<RepeatNode(body.nodes, cond)>>, Closed(lines, body.pos, "UNTIL"), 0)

\* line 153-159: the ELSEIF branches after the branches already parsed
parse_elseif(lines, pos, branches) ==
    IF ~at_end(lines, pos) /\ peek(lines, pos) = "ELSEIF" THEN
        LET cond == Tail(lines[pos + 1])
            body == parse_block(lines, pos + 1, {"ELSEIF", "ELSE", "ENDIF"})
        IN  IF body.err # 0 THEN body
            ELSE parse_elseif(lines, body.pos, Append(branches, Branch(cond, body.nodes)))
    ELSE Parsed(branches, pos, 0)

parse_if(lines, pos) ==
    LET cond == Tail(lines[pos + 1])
        body == parse_block(lines, pos + 1, {"ELSEIF", "ELSE", "ENDIF"})
        more == parse_elseif(lines, body.pos, <<Branch(cond, body.nodes)>>)
        has_else == ~at_end(lines, more.pos) /\ peek(lines, more.pos) = "ELSE"
        else_body == IF has_else THEN parse_block(lines, more.pos + 1, {"ENDIF"})
                     ELSE Parsed(<<>>, more.pos, 0)
    IN  IF body.err # 0 THEN body
        ELSE IF more.err # 0 THEN more
        ELSE IF else_body.err # 0 THEN else_body
        ELSE Parsed(<<IfNode(more.nodes, else_body.nodes)>>,
                    Closed(lines, else_body.pos, "ENDIF"), 0)

\* variant whose cursor passes the line after the CALL as well
parse_call_SkipsNext(lines, pos) ==
    LET tokens == lines[pos + 1]
        filename == IF Len(tokens) > 1 THEN StripQuotes(tokens[2]) ELSE ""
    IN  Parsed(<<CallNode(filename, pos)>>, pos + 2, 0)

\* line 173-178
parse_call(lines, pos) ==
    LET tokens == lines[pos + 1]
        filename == IF Len(tokens) > 1 THEN StripQuotes(tokens[2]) ELSE ""
    IN  Parsed(<<CallNode(filename, pos)>>, pos + 1, 0)

parse_try(lines, pos) ==
    LET try_body == parse_block(lines, pos + 1, {"CATCH", "ENDTRY"})
        has_catch == ~at_end(lines, try_body.pos) /\ peek(lines, try_body.pos) = "CATCH"
        catch_body == IF has_catch THEN parse_block(lines, try_body.pos + 1, {"ENDTRY"})
                      ELSE Parsed(<<>>, try_body.pos, 0)
    IN  IF try_body.err # 0 THEN try_body
        ELSE IF catch_body.err # 0 THEN catch_body
        ELSE Parsed(<<TryCatchNode(try_body.nodes, catch_body.nodes)>>,
                    Closed(lines, catch_body.pos, "ENDTRY"), 0)

\* line 82-102
dispatch(lines, pos) ==
    LET cmd == peek(lines, pos)
        tokens == lines[pos + 1]
    IN  CASE cmd = "LOOP"   -> parse_loop(lines, pos)
          [] cmd = "WHILE"  -> parse_while(lines, pos)
          [] cmd = "REPEAT" -> parse_repeat(lines, pos)
          [] cmd = "IF"     -> parse_if(lines, pos)
          [] cmd = "TRY"    -> parse_try(lines, pos)
          [] cmd = "CALL"   -> parse_call(lines, pos)
          [] OTHER ->
                IF cmd \in BLOCK_TERMINATORS THEN Parsed(<<>>, pos, pos + 1)
                ELSE IF IsVar(tokens[1]) /\ Len(tokens) >= 2 /\ tokens[2] = "="
                    THEN parse_assign(lines, pos)
                ELSE Parsed(<<CmdNode(tokens, pos)>>, pos + 1, 0)

\* variant that puts a node after the siblings that follow it
parse_block_Reversed(lines, pos, stop) ==
    IF at_end(lines, pos) \/ peek(lines, pos) \in stop THEN Parsed(<<>>, pos, 0)
    ELSE LET node == dispatch(lines, pos)
         IN  IF node.err # 0 THEN node
             ELSE LET rest == parse_block(lines, node.pos, stop)
                  IN  IF rest.err # 0 THEN rest
                      ELSE Parsed(rest.nodes \o node.nodes, rest.pos, 0)

\* line 73-80
parse_block(lines, pos, stop) ==
    IF at_end(lines, pos) \/ peek(lines, pos) \in stop THEN Parsed(<<>>, pos, 0)
    ELSE LET node == dispatch(lines, pos)
         IN  IF node.err # 0 THEN node
             ELSE LET rest == parse_block(lines, node.pos, stop)
                  IN  IF rest.err # 0 THEN rest
                      ELSE Parsed(node.nodes \o rest.nodes, rest.pos, 0)

\* what build_ast gives its caller: the nodes, or a ParseError with its line
Built(nodes) == [ok |-> TRUE, nodes |-> nodes, line |-> 0]
ParseError(line) == [ok |-> FALSE, nodes |-> <<>>, line |-> line]

\* _Builder.build, line 65-71
build(lines) ==
    LET r == parse_block(lines, 0, {})
    IN  IF r.err # 0 THEN ParseError(r.err)
        ELSE IF ~at_end(lines, r.pos) THEN ParseError(r.pos + 1)
        ELSE Built(r.nodes)

\* line 199-204
build_ast(token_lines) == build(token_lines)

(***************************************************************************)
(* The parser (parser.py).  A raw line is a sequence of characters in      *)
(* which a run of characters other than blank, #, " and \ stands as one    *)
(* word.                                                                   *)
(***************************************************************************)
COMMENT_PREFIX == "#"
Quote == "\""
Blank == " "
Backslash == "\\"

\* line 28-34, from character i on
RECURSIVE strip_comment_from(_, _, _)
strip_comment_from(line, i, in_str) ==
    IF i > Len(line) THEN line
    ELSE IF line[i] = Quote THEN strip_comment_from(line, i + 1, ~in_str)
    ELSE IF line[i] = COMMENT_PREFIX /\ ~in_str THEN SubSeq(line, 1, i - 1)
    ELSE strip_comment_from(line, i + 1, in_str)

strip_comment(line) == strip_comment_from(line, 1, FALSE)

\* str.strip()
RECURSIVE lstrip(_)
lstrip(line) == IF line # <<>> /\ Head(line) = Blank THEN lstrip(Tail(line)) ELSE line
RECURSIVE rstrip(_)
rstrip(line) ==
    IF line # <<>> /\ line[Len(line)] = Blank THEN rstrip(SubSeq(line, 1, Len(line) - 1))
    ELSE line
strip(line) == lstrip(rstrip(line))

\* shlex.split(s, posix=True) on these characters: blanks separate tokens, a double
\* quote opens or closes a span that belongs to the token, without the quotes; a
\* backslash outside a span makes the next character part of the token, inside
\* a span it does so for a quote or a backslash and stays in the token before
\* any other character; a span left open is the ValueError "No closing
\* quotation", a backslash at the end the ValueError "No escaped character"
RECURSIVE shlex_from(_, _, _, _, _)
shlex_from(line, i, token, started, quoted) ==
    IF i > Len(line) THEN
        IF quoted THEN [ok |-> FALSE, tokens |-> <<>>]
        ELSE [ok |-> TRUE, tokens |-> IF started THEN <<token>> ELSE <<>>]
    ELSE IF line[i] = Backslash THEN
        IF i = Len(line) THEN [ok |-> FALSE, tokens |-> <<>>]
        ELSE IF quoted /\ line[i + 1] \notin {Quote, Backslash}
             THEN shlex_from(line, i + 2, token \o Backslash \o line[i + 1], TRUE, quoted)
        ELSE shlex_from(line, i + 2, token \o line[i + 1], TRUE, quoted)
    ELSE IF line[i] = Quote THEN shlex_from(line, i + 1, token, TRUE, ~quoted)
    ELSE IF line[i] = Blank /\ ~quoted THEN
        LET rest == shlex_from(line, i + 1, "", FALSE, FALSE)
        IN  IF started /\ rest.ok THEN [rest EXCEPT !.tokens = <<token>> \o @] ELSE rest
    ELSE shlex_from(line, i + 1, token \o line[i], TRUE, quoted)

shlex_split(line) == shlex_from(line, 1, "", FALSE, FALSE)

\* str.split()
RECURSIVE split_from(_, _, _)
split_from(line, i, token) ==
    IF i > Len(line) THEN IF token # "" THEN <<token>> ELSE <<>>
    ELSE IF line[i] = Blank
         THEN (IF token # "" THEN <<token>> ELSE <<>>) \o split_from(line, i + 1, "")
    ELSE split_from(line, i + 1, token \o line[i])

split(line) == split_from(line, 1, "")

\* line 37-51
tokenize(line) ==
    LET stripped == strip(strip_comment(line))
    IN  IF stripped = <<>> THEN <<>>
        ELSE IF shlex_split(stripped).ok THEN shlex_split(stripped).tokens
        ELSE split(stripped)

\* line 54-71
expand_sugar(tokens, sugar_map) ==
    IF tokens = <<>> THEN tokens
    ELSE LET cmd == Upper(tokens[1])
             canonical == IF cmd \in DOMAIN sugar_map THEN sugar_map[cmd] ELSE cmd
         IN  IF is_commands(canonical) THEN <<canonical>> \o Tail(tokens)
             ELSE tokens

(***************************************************************************)
(* The scripts the model runs.  P is a visible command; the number is the  *)
(* 0-based source line of the leaf.                                        *)
(***************************************************************************)
P(x, ln) == CmdNode(<<"PRINT", x>>, ln)
C(cmd, ln) == CmdNode(<<cmd>>, ln)

exit_sub ==
    << WhileNode(<<"TRUE">>,
         << RepeatNode(<< C("EXIT", 2), P("r", 3) >>, <<"TRUE">>), P("w", 5) >>),
       P("end", 7) >>
exit_nested ==
    << LoopNode("2",
         << TryCatchNode(
              << IfNode(<< Branch(<<"TRUE">>, << CallNode("exit_sub", 3) >>) >>, <<>>),
                 P("after_call", 5) >>,
              << P("caught", 7) >>),
            P("after_try", 9) >>),
       P("after_loop", 11) >>
exit_catch ==
    << TryCatchNode(<< AssignNode("$k", <<"GET_PIXEL_COLOR", "a", "b">>, 1), P("t", 2) >>,
                    << P("c1", 4), C("EXIT", 5), P("c2", 6) >>),
       P("after", 8) >>
try_cmd ==
    << TryCatchNode(
         << C("FOO", 1), C("MOUSE_POS", 2), CmdNode(<<"MOUSE_POS", "a", "b">>, 3),
            P("rest", 4) >>,
         << P("caught", 6) >>),
       P("after", 8) >>
ret_try ==
    << TryCatchNode(<< C("RETURN", 1), P("g", 2) >>, << P("c", 4) >>), P("h", 6) >>
try_flow ==
    << LoopNode("2",
         << TryCatchNode(<< P("a", 2), C("BREAK", 3), P("b", 4) >>, << P("c", 6) >>),
            P("d", 8) >>),
       WhileNode(<<"$x", "<", "2">>,
         << AssignNode("$x", <<"$x", "+", "1">>, 11),
            TryCatchNode(<< C("CONTINUE", 13) >>, << P("c", 15) >>),
            P("e", 17) >>),
       CallNode("ret_try", 19),
       P("f", 20) >>
rec ==
    << AssignNode("$d", <<"$d", "+", "1">>, 0), CallNode("rec", 1), P("back", 2) >>
ping == << P("ping", 0), CallNode("pong", 1) >>
pong == << CallNode("ping", 0), P("pong", 1) >>
ret_sub ==
    << LoopNode("2",
         << IfNode(<< Branch(<<"TRUE">>,
                        << TryCatchNode(<< AssignNode("$r", <<"$r", "+", "1">>, 3),
                                           C("RETURN", 4) >>, <<>>) >>) >>, <<>>),
            P("no1", 7) >>),
       P("no2", 9) >>
ret ==
    << LoopNode("2", << CallNode("ret_sub", 1), P("after_call", 2) >>), P("end", 4) >>
share_sub2 == << AssignNode("$b", <<"$b", "*", "2">>, 0) >>
share_sub ==
    << AssignNode("$b", <<"$a", "+", "1">>, 0), CallNode("share_sub2", 1),
       AssignNode("$a", <<"2">>, 2), C("RETURN", 3), AssignNode("$a", <<"7">>, 4) >>
share ==
    << AssignNode("$a", <<"RANDOM", "4", "5">>, 0), CallNode("share_sub", 1),
       CmdNode(<<"PRINT", "$a", "$b">>, 2) >>
ifchain ==
    << AssignNode("$x", <<"RANDOM", "0", "3">>, 0),
       IfNode(<< Branch(<<"$x", "==", "1">>, << P("one", 2) >>),
                 Branch(<<"$x", ">=", "1">>, << P("two", 4) >>),
                 Branch(<<"WINDOW_EXISTS", "w">>, << P("win", 6) >>) >>,
              << P("else", 8) >>),
       P("after", 10) >>
loopcount ==
    << AssignNode("$n", <<"RANDOM", "0", "2">>, 0),
       LoopNode("$n", << AssignNode("$n", <<"$n", "+", "2">>, 2), P("it", 3) >>),
       LoopNode("many", << P("once", 6) >>),
       P("after", 8) >>
brk ==
    << LoopNode("2",
         << LoopNode("2", << P("a", 2), C("BREAK", 3), P("b", 4) >>),
            WhileNode(<<"TRUE">>, << P("c", 7), C("BREAK", 8), P("d", 9) >>),
            RepeatNode(<< P("e", 12), C("BREAK", 13), P("f", 14) >>, <<"FALSE">>),
            P("g", 16) >>),
       P("after", 18) >>
cont ==
    << LoopNode("2", << P("a", 1), C("CONTINUE", 2), P("b", 3) >>),
       WhileNode(<<"$x", "<", "2">>,
         << AssignNode("$x", <<"$x", "+", "1">>, 6), C("CONTINUE", 7), P("d", 8) >>),
       RepeatNode(<< AssignNode("$r", <<"$r", "+", "1">>, 11), C("CONTINUE", 12),
                     P("f", 13) >>, <<"$r", ">=", "2">>),
       P("after", 15) >>
limits ==
    << WhileNode(<<"TRUE">>, << P("w", 1) >>),
       RepeatNode(<< P("r", 4) >>, <<"FALSE">>),
       LoopNode("5", << P("l", 7) >>),
       WhileNode(<<"FILE_EXISTS", "f">>, << C("WAIT", 10) >>),
       P("after", 12) >>
callfail ==
    << CallNode("", 0), CallNode("nofile", 1), CallNode("locked", 2),
       CallNode("broken", 3), CallNode("flow_sub", 4), P("after", 5) >>
flow_sub == << AssignNode("$k", <<>>, 0), C("BREAK", 1) >>
\* a Loop and a While whose bodies call a script that breaks or continues
flow_call ==
    << LoopNode("2", << P("a", 1), CallNode("brk_sub", 2), P("b", 3) >>),
       WhileNode(<<"$x", "<", "2">>,
         << AssignNode("$x", <<"$x", "+", "1">>, 6), CallNode("cont_sub", 7), P("d", 8) >>),
       P("after", 10) >>
brk_sub == << P("s", 0), TryCatchNode(<< C("BREAK", 2) >>, << P("x", 4) >>), P("t", 6) >>
cont_sub == << P("u", 0), C("CONTINUE", 1), P("v", 2) >>
\* a RETURN in the script played, and a CONTINUE with no loop around it in
\* the script played or in its callee
top_ret ==
    << P("a", 0),
       LoopNode("2", << TryCatchNode(<< C("RETURN", 3) >>, << P("c", 5) >>), P("b", 7) >>),
       P("after", 9) >>
top_cont ==
    << P("a", 0),
       IfNode(<< Branch(<<"TRUE">>, << CallNode("cont_sub", 2), P("b", 3) >>) >>, <<>>),
       P("after", 5) >>
getpos ==
    << CmdNode(<<"MOUSE_GET_POS", "$x", "$y">>, 0), CmdNode(<<"MOUSE_GET_POS", "$x">>, 1),
       IfNode(<< Branch(<<"$x", "==", "0">>, <<>>) >>, <<>>),
       CmdNode(<<"WAIT", "$x">>, 4) >>
rep ==
    << RepeatNode(<< P("once", 1) >>, <<"TRUE">>),
       RepeatNode(<< AssignNode("$r", <<"$r", "+", "1">>, 4), P("it", 5) >>,
                  <<"$r", ">=", "2">>),
       RepeatNode(<< P("o", 8) >>, <<"WINDOW_EXISTS", "w">>),
       P("after", 10) >>

subst ==
    << CmdNode(<<"PRINT", "$a", "lit", "a$x">>, 0), AssignNode("$a", <<"$x", "==", "0">>, 1),
       AssignNode("$b", <<"word">>, 2), CmdNode(<<"PRINT", "$a", "$b", "$a">>, 3) >>

\* scripts given as the token lines parse_lines hands to build_ast
\* the last line does not fit the open LOOP
bad_tail ==
    << <<"PRINT", "a">>, <<"$x", "=", "1">>, <<"CALL", "share_sub2">>, <<"LOOP", "2">>,
       <<"PRINT", "b">>, <<"ENDIF">> >>
bad_head == << <<"ENDLOOP">>, <<"PRINT", "a">> >>
good ==
    << <<"$x", "=", "1">>, <<"LOOP", "2">>, <<"PRINT", "a">>, <<"ENDLOOP">>,
       <<"PRINT", "$x">> >>
broken == << <<"$a", "=", "2">>, <<"PRINT", "callee">>, <<"ENDLOOP">> >>
calls ==
    << <<"$a", "=", "1">>, <<"CALL">>, <<"PRINT", "1">>, <<"CALL", "nofile">>,
       <<"PRINT", "2">>, <<"CALL", "locked">>, <<"PRINT", "3">>, <<"CALL", "'broken'">>,
       <<"PRINT", "4">>, <<"CALL", "none">>, <<"PRINT", "$a", "$x">> >>

\* line 306-310: the file as _run_call sees it when build_ast gave r
BuiltFile(r) == File(IF r.ok THEN "ok" ELSE "parse_error", r.nodes)

\* variant of the call that runs the lines before the one that fails to build
TextFile_RunsPrefix(lines) ==
    LET r == build_ast(lines)
    IN  File("ok", IF r.ok THEN r.nodes ELSE build_ast(SubSeq(lines, 1, r.line - 1)).nodes)

\* line 294-310: a readable file, as its text builds
TextFile(lines) == BuiltFile(build_ast(lines))

\* the files of macros_dir
MacroFiles ==
    [f \in {"exit_sub", "ret_try", "rec", "ping", "pong", "ret_sub", "share_sub",
            "share_sub2", "flow_sub", "brk_sub", "cont_sub", "nofile", "locked",
            "broken"} |->
        CASE f = "exit_sub"   -> File("ok", exit_sub)
          [] f = "ret_try"    -> File("ok", ret_try)
          [] f = "rec"        -> File("ok", rec)
          [] f = "ping"       -> File("ok", ping)
          [] f = "pong"       -> File("ok", pong)
          [] f = "ret_sub"    -> File("ok", ret_sub)
          [] f = "share_sub"  -> File("ok", share_sub)
          [] f = "share_sub2" -> File("ok", share_sub2)
          [] f = "flow_sub"   -> File("ok", flow_sub)
          [] f = "brk_sub"    -> File("ok", brk_sub)
          [] f = "cont_sub"   -> File("ok", cont_sub)
          [] f = "nofile"     -> File("missing", <<>>)
          [] f = "locked"     -> File("unreadable", <<>>)
          [] f = "broken"     -> TextFile(broken)]

\* the texts a user plays, after build_ast
Programs ==
    [p \in {"exit_nested", "exit_catch", "try_cmd", "try_flow", "rec", "ping", "ret",
            "share", "ifchain", "loopcount", "brk", "cont", "limits", "callfail",
            "getpos", "rep", "subst", "flow_call", "top_ret", "top_cont"} |->
        CASE p = "exit_nested" -> exit_nested
          [] p = "exit_catch"  -> exit_catch
          [] p = "try_cmd"     -> try_cmd
          [] p = "try_flow"    -> try_flow
          [] p = "rec"         -> rec
          [] p = "ping"        -> ping
          [] p = "ret"         -> ret
          [] p = "share"       -> share
          [] p = "ifchain"     -> ifchain
          [] p = "loopcount"   -> loopcount
          [] p = "brk"         -> brk
          [] p = "cont"        -> cont
          [] p = "limits"      -> limits
          [] p = "callfail"    -> callfail
          [] p = "getpos"      -> getpos
          [] p = "rep"         -> rep
          [] p = "subst"       -> subst
          [] p = "flow_call"   -> flow_call
          [] p = "top_ret"     -> top_ret
          [] p = "top_cont"    -> top_cont]

\* the texts a user plays, as token lines
Texts ==
    [p \in {"bad_tail", "bad_head", "good", "calls"} |->
        CASE p = "bad_tail" -> bad_tail
          [] p = "bad_head" -> bad_head
          [] p = "good"     -> good
          [] p = "calls"    -> calls]

\* what build_ast gives for each text
BuiltTexts == [p \in DOMAIN Texts |-> build_ast(Texts[p])]

\* player.py 87-91: what build_ast gives for the script played
TopLevel(p) == IF p \in DOMAIN Texts THEN BuiltTexts[p] ELSE Built(Programs[p])

\* variant of the sub-runner construction that hands in no store
SubRunnerStore_Fresh(vs, heap) == Len(heap) + 1

\* line 321: the sub-runner is given the caller's store, variables = self._vars
SubRunnerStore(vs, heap) == vs

\* line 312-326: a Call that is not refused runs the callee in a sub-runner
RunCall ==
    /\ AtNode("Call")
    /\ LET refusal == CallRefusal(Top.depth, Node.filename, MacroFiles)
       IN  IF refusal # <<>> THEN
                /\ log' = log \o refusal
                /\ stack' = Advanced
                /\ trace' = Append(trace, Event("call", Node.filename, <<>>,
                                Node.line_num, Top.depth, "refused", NoSnap))
                /\ stores' = stores
           ELSE /\ log' = Append(log, Msg("INFO", "CALL ->"))
                /\ stack' = Waiting \o
                      <<Frame("call", Node, <<>>, 0, "callee", Top.depth, 0, Top.vs),
                        RunFrame(MacroFiles[Node.filename].nodes, Top.depth + 1,
                                 SubRunnerStore(Top.vs, stores))>>
                \* runner.py 73: without a store handed in, the runner makes its own
                /\ stores' = IF SubRunnerStore(Top.vs, stores) \in DOMAIN stores
                             THEN stores ELSE Append(stores, <<>>)
                /\ trace' = Append(trace, Event("call", Node.filename, <<>>,
                                Node.line_num, Top.depth, "ok", NoSnap))
    /\ UNCHANGED <<prog, hasMss, sig, stop_event, status>>
    /\ UNCHANGED ovars

\* line 326-329: the callee's run returned
CallReturn ==
    /\ Normal /\ Top.k = "call"
    /\ stack' = Pop
    /\ log' = Append(log, Msg("INFO", "CALL <-"))
    /\ UNCHANGED <<prog, hasMss, sig, stores, stop_event, trace, status>>
    /\ UNCHANGED ovars

(***************************************************************************)
(* An exception in flight meets the frame on top of the stack.             *)
(***************************************************************************)
Raised == Active /\ sig # "none"

\* _run_loop 214-217, _run_while 233-236, _run_repeat 253-256
LoopCatch ==
    /\ Raised /\ Top.k \in {"loop", "while", "repeat"} /\ Handles(Top, sig)
    /\ stack' = IF sig = "Break" THEN Pop
                ELSE IF Top.k = "loop" THEN SetTop(LoopNext)
                ELSE IF Top.k = "while" THEN SetTop(WhileNext)
                ELSE SetTop(RepeatNext)
    /\ sig' = "none"
    /\ UNCHANGED <<prog, hasMss, stores, stop_event, trace, log, status>>
    /\ UNCHANGED ovars

\* _run_try 270-273
TryCatch ==
    /\ Raised /\ Top.k = "try" /\ Handles(Top, sig)
    /\ log' = Append(log, Msg("WARNING", "TRY block caught"))
    /\ stack' = IF Top.node.catch_body # <<>>
                THEN Append(SetTop([Top EXCEPT !.pc = "catch"]),
                            RunFrame(Top.node.catch_body, Top.depth, Top.vs))
                ELSE Pop
    /\ sig' = "none"
    /\ UNCHANGED <<prog, hasMss, stores, stop_event, trace, status>>
    /\ UNCHANGED ovars

\* _run_call 327-329
CallCatch ==
    /\ Raised /\ Top.k = "call" /\ Handles(Top, sig)
    /\ stack' = Pop
    /\ sig' = "none"
    /\ log' = Append(log, Msg("INFO", "CALL <-"))
    /\ UNCHANGED <<prog, hasMss, stores, stop_event, trace, status>>
    /\ UNCHANGED ovars

\* no handler in this frame: the exception leaves it
Propagate ==
    /\ Raised /\ ~Handles(Top, sig)
    /\ stack' = Pop
    /\ UNCHANGED <<prog, hasMss, sig, stores, stop_event, trace, log, status>>
    /\ UNCHANGED ovars

(***************************************************************************)
(* _PlaybackThread.run 106-112 and _PlaybackThread.stop                    *)
(***************************************************************************)
\* variant of the thread that runs what it could build of a script that fails to build
ThreadBuild_RunsPrefix ==
    /\ status = "starting"
    /\ LET r == TopLevel(prog)
       IN  IF r.ok THEN stack' = <<RunFrame(r.nodes, 0, 1)>>
           ELSE stack' = <<RunFrame(build_ast(SubSeq(Texts[prog], 1, r.line - 1)).nodes, 0, 1)>>
    /\ status' = "running"
    /\ UNCHANGED <<prog, hasMss, sig, stores, stop_event, trace, log>>
    /\ UNCHANGED ovars

\* line 86-104: the AST is built, then the runner is made; a ParseError ends run()
ThreadBuild ==
    /\ status = "starting"
    /\ \E r \in {TopLevel(prog)} :
           IF r.ok
           THEN /\ stack' = <<RunFrame(r.nodes, 0, 1)>>
                /\ status' = "running"
                /\ log' = log
           ELSE /\ stack' = stack
                /\ status' = "finished"
                /\ log' = Append(log, Msg("ERROR", "syntax error"))
    /\ UNCHANGED <<prog, hasMss, sig, stores, stop_event, trace>>
    /\ UNCHANGED ovars

\* variant that reports a cancelled run as completed
Terminal_ExitCompletes(s) ==
    IF s \in {"none", "Exit"} THEN Msg("SUCCESS", "completed")
    ELSE Msg("ERROR", "playback error")

\* variant that takes a flow exception that leaves run() for its normal end
Terminal_FlowCompletes(s) ==
    IF s = "Exit" THEN Msg("INFO", "interrupted") ELSE Msg("SUCCESS", "completed")

\* line 106-112: the message run() ends with
Terminal(s) ==
    IF s = "none" THEN Msg("SUCCESS", "completed")
    ELSE IF s = "Exit" THEN Msg("INFO", "interrupted")
    ELSE Msg("ERROR", "playback error")

ThreadFinish ==
    /\ status = "running" /\ stack = <<>>
    /\ log' = Append(log, Terminal(sig))
    /\ status' = "finished"
    /\ sig' = "none"
    /\ UNCHANGED <<prog, hasMss, stack, stores, stop_event, trace>>
    /\ UNCHANGED ovars

Stop ==
    /\ status \in {"starting", "running"} /\ ~stop_event
    /\ stop_event' = TRUE
    /\ UNCHANGED <<prog, hasMss, stack, sig, stores, trace, log, status>>
    /\ UNCHANGED ovars

\* no build_ast call is being looked at
NotBuilt == [ok |-> FALSE, nodes |-> <<>>, line |-> -1]
BuilderIdle == b_lines = <<>> /\ b_out = NotBuilt
\* no MacroPlayer is being looked at
PlayerIdle ==
    /\ p_thread = 0 /\ p_threads = <<>> /\ p_events = <<>>
    /\ p_calls = 0 /\ p_status = ""
\* no call of eval_expr or eval_condition is being looked at
NotCalled == [raised |-> FALSE, val |-> FALSE, warns |-> -1]
Called(o) == o.warns >= 0
EvalIdle ==
    /\ e_tokens = <<>> /\ e_store = <<>> /\ e_env = Env(TRUE, TRUE, TRUE)
    /\ e_expr = NotCalled /\ e_cond = NotCalled
\* no VariableStore is being looked at
StoreIdle == d_heap = <<>> /\ d_snaps = <<>> /\ d_op = ""
\* no timed wait is being looked at
WaitIdle ==
    /\ w_ms = 0 /\ w_speed = 0 /\ w_pc = "" /\ w_elapsed = 0 /\ w_t = 0
    /\ w_flag = FALSE /\ w_chunks = <<>> /\ w_late = 0
\* no text is being parsed
ParserIdle ==
    /\ s_text = <<>> /\ s_sugar = <<>> /\ s_done = <<>> /\ s_result = <<>>
    /\ s_ast = NotBuilt
\* no playback thread is being looked at
RunnerIdle ==
    /\ prog = "" /\ hasMss = FALSE /\ stack = <<>> /\ sig = "none" /\ stores = <<>>
    /\ stop_event = FALSE /\ trace = <<>> /\ log = <<>> /\ status = "idle"

(***************************************************************************)
(* One playback, from the start of the thread: nothing is built yet, the   *)
(* store is empty, the flag is clear.                                      *)
(***************************************************************************)
Init ==
    /\ prog \in DOMAIN Programs \cup DOMAIN Texts
    /\ hasMss \in BOOLEAN
    /\ stack = <<>>
    /\ sig = "none"
    /\ stores = << <<>> >>
    /\ stop_event = FALSE
    /\ trace = <<>>
    /\ log = <<>>
    /\ status = "starting"
    /\ PlayerIdle /\ BuilderIdle /\ ParserIdle /\ EvalIdle /\ StoreIdle /\ WaitIdle

Next ==
    \/ RunCheck \/ RunReturn \/ RunAdvance
    \/ RunCmd \/ RunAssign
    \/ RunIf \/ IfCond \/ IfElse \/ IfReturn
    \/ RunLoop \/ LoopTop \/ LoopBodyDone
    \/ RunWhile \/ WhileCond \/ WhileBody \/ WhileBodyDone
    \/ RunRepeat \/ RepeatTop \/ RepeatBodyDone \/ RepeatUntil
    \/ RunTry \/ TryReturn
    \/ RunCall \/ CallReturn
    \/ LoopCatch \/ TryCatch \/ CallCatch \/ Propagate
    \/ ThreadBuild \/ ThreadFinish
    \/ Stop

Spec == Init /\ [][Next]_vars

\* the steps of the playback thread itself: every step but stop(), which the
\* main thread may or may not make
Progress == Next /\ stop_event' = stop_event

\* the playback thread keeps running: every executor command and every
\* condition call returns, so a step of the thread that can be made is made
LiveSpec == Init /\ [][Next]_vars /\ WF_vars(Progress)

(***************************************************************************)
(* MacroPlayer (player.py 119-180) with its playback threads.  play, stop  *)
(* and _on_finished run on the main thread, one at a time.  A thread is    *)
(* active while its run() executes; when run() has returned, QThread emits *)
(* finished, which reaches _on_finished through the main thread's event    *)
(* queue, and isRunning() becomes false.                                   *)
(***************************************************************************)
\* how many play() calls the model follows
MaxPlays == 3

\* the token lines parse_lines gives for the texts played: none, or some
PlayTexts == {<<>>, << <<"PRINT", "$x">>, <<"$x", "=", "1">> >>}

\* a _PlaybackThread whose executor and store are those of the thread created
\* before it, where there is one
PlaybackThread_Reused(token_lines) ==
    [active |-> TRUE, isRunning |-> TRUE, emitted |-> FALSE,
     stop |-> p_threads # <<>> /\ p_threads[Len(p_threads)].stop,
     variables |-> IF p_threads = <<>> THEN <<>>
                   ELSE p_threads[Len(p_threads)].variables,
     lines |-> token_lines, pc |-> 1, printed |-> <<>>]

\* a _PlaybackThread after __init__ (line 44-59) and start(): line 56-57 makes
\* its CommandExecutor, whose __init__ makes the stop event (executor.py 107),
\* and line 58 makes its VariableStore
PlaybackThread(token_lines) ==
    [active |-> TRUE, isRunning |-> TRUE, emitted |-> FALSE, stop |-> FALSE,
     variables |-> <<>>, lines |-> token_lines, pc |-> 1, printed |-> <<>>]

\* line 144-146
is_playing == p_thread # 0 /\ p_threads[p_thread].isRunning

\* line 148-171
play ==
    /\ p_calls < MaxPlays
    /\ p_calls' = p_calls + 1
    /\ \E token_lines \in PlayTexts :
        IF is_playing \/ token_lines = <<>>
        THEN UNCHANGED <<p_thread, p_threads, p_status>>
        ELSE /\ p_threads' = Append(p_threads, PlaybackThread(token_lines))
             /\ p_thread' = Len(p_threads) + 1
             /\ p_status' = "playing"
    /\ UNCHANGED <<p_events, rvars, bvars, svars, evars, dvars, wvars>>

\* line 173-176: the flag is set, then wait(3000) returns when the thread has
\* finished or when the time is over
player_stop ==
    /\ p_thread # 0
    /\ \E ended \in BOOLEAN :
        LET th == p_threads[p_thread]
        IN  /\ p_threads' = [p_threads EXCEPT ![p_thread] =
                    IF ended
                    THEN [th EXCEPT !.active = FALSE, !.isRunning = FALSE,
                                    !.emitted = TRUE, !.stop = TRUE]
                    ELSE [th EXCEPT !.stop = TRUE]]
            /\ p_events' = IF ended /\ ~th.emitted THEN Append(p_events, p_thread)
                           ELSE p_events
    /\ UNCHANGED <<p_thread, p_calls, p_status, rvars, bvars, svars, evars, dvars, wvars>>

\* line 178-180, run for the finished signal at the head of the event queue
on_finished ==
    /\ p_events # <<>>
    /\ p_events' = Tail(p_events)
    /\ p_thread' = 0
    /\ p_status' = "stopped"
    /\ UNCHANGED <<p_threads, p_calls, rvars, bvars, svars, evars, dvars, wvars>>

\* the runner of a thread executes the next line of its script (runner.py
\* 80-83, with _run_cmd 105-110 and _run_assign 157-182): the stop event of the thread's own executor is looked at first,
\* PRINT resolves its argument in the thread's own store, an assignment
\* writes to it
thread_executes ==
    \E t \in 1..Len(p_threads) :
        LET th == p_threads[t]
            tokens == th.lines[th.pc]
        IN  /\ th.active /\ ~th.stop /\ th.pc <= Len(th.lines)
            /\ p_threads' = [p_threads EXCEPT ![t] =
                    IF tokens[1] = "PRINT"
                    THEN [th EXCEPT !.pc = th.pc + 1,
                                    !.printed = Append(th.printed,
                                                       Str(Get(th.variables, tokens[2])))]
                    ELSE [th EXCEPT !.pc = th.pc + 1,
                                    !.variables = Set(th.variables, tokens[1],
                                                      Coerce(tokens[3]))]]
            /\ UNCHANGED <<p_thread, p_events, p_calls, p_status, rvars, bvars, svars, evars, dvars, wvars>>

\* _PlaybackThread.run returns (line 91, or after line 108-112)
thread_returns ==
    \E t \in 1..Len(p_threads) :
        /\ p_threads[t].active
        /\ p_threads' = [p_threads EXCEPT ![t].active = FALSE]
        /\ UNCHANGED <<p_thread, p_events, p_calls, p_status, rvars, bvars, svars, evars, dvars, wvars>>

\* the finished signal connected at line 167 is emitted and queued
thread_emits_finished ==
    \E t \in 1..Len(p_threads) :
        /\ ~p_threads[t].active /\ ~p_threads[t].emitted
        /\ p_threads' = [p_threads EXCEPT ![t].emitted = TRUE]
        /\ p_events' = Append(p_events, t)
        /\ UNCHANGED <<p_thread, p_calls, p_status, rvars, bvars, svars, evars, dvars, wvars>>

\* isRunning() of a thread whose run() has returned becomes false
thread_clears_running ==
    \E t \in 1..Len(p_threads) :
        /\ ~p_threads[t].active /\ p_threads[t].isRunning
        /\ p_threads' = [p_threads EXCEPT ![t].isRunning = FALSE]
        /\ UNCHANGED <<p_thread, p_events, p_calls, p_status, rvars, bvars, svars, evars, dvars, wvars>>

PlayerInit ==
    /\ PlayerIdle /\ RunnerIdle /\ BuilderIdle /\ ParserIdle /\ EvalIdle /\ StoreIdle /\ WaitIdle

PlayerNext ==
    \/ play \/ player_stop \/ on_finished
    \/ thread_executes \/ thread_returns \/ thread_emits_finished
    \/ thread_clears_running

PlayerSpec == PlayerInit /\ [][PlayerNext]_vars

\* the playback threads whose run() is executing
ActiveRuns == {t \in 1..Len(p_threads) : p_threads[t].active}

(***************************************************************************)
(* One call of build_ast on a list of token lines.                         *)
(***************************************************************************)
\* how many token lines the generated inputs have at most
MaxLines == 4

\* the lines the inputs are made of: every block keyword and a command
BlockLines ==
    { <<"LOOP", "2">>, <<"WHILE", "TRUE">>, <<"REPEAT">>, <<"IF", "TRUE">>, <<"TRY">>,
      <<"ENDLOOP">>, <<"ENDWHILE">>, <<"UNTIL", "TRUE">>, <<"ELSEIF", "FALSE">>,
      <<"ELSE">>, <<"ENDIF">>, <<"CATCH">>, <<"ENDTRY">>, <<"PRINT", "a">> }

\* longer inputs, with lower-case keywords, assignments and calls
ExtraInputs ==
    { << <<"LOOP", "$n", "+", "1">>, <<"loop">>, <<"LOOP", "2*3">>, <<"PRINT", "a">>,
         <<"ENDLOOP">>, <<"ENDLOOP">> >>,
      << <<"loop">>, <<"$x", "=", "1">>, <<"CALL", "'sub'">>, <<"print", "a">>, <<"endif">> >>,
      << <<"IF", "$x">>, <<"$x", "=">>, <<"Else">>, <<"CALL">>, <<"ELSE">>, <<"ENDIF">> >>,
      << <<"TRY">>, <<"loop", "$n">>, <<"PRINT", "a">>, <<"endloop">>, <<"CATCH">>,
         <<"$x">>, <<"ENDTRY">>, <<"ENDTRY">> >>,
      << <<"TRY">>, <<"IF", "1">>, <<"ELSEIF", "0">>, <<"ELSE">>, <<"ENDIF">>, <<"CATCH">>,
         <<"REPEAT">>, <<"UNTIL">>, <<"ENDTRY">> >>,
      << <<"TRY">>, <<"IF", "$x">>, <<"$x", "=", "1">>, <<"ELSE">>, <<"CALL", "'sub'">>,
         <<"ENDIF">>, <<"CATCH">>, <<"PRINT", "a">>, <<"ENDTRY">> >> }

BuildInputs ==
    UNION {[1..n -> BlockLines] : n \in 0..MaxLines} \cup ExtraInputs

Build ==
    /\ b_out = NotBuilt
    /\ b_out' = build_ast(b_lines)
    /\ UNCHANGED <<b_lines, rvars, pvars, svars, evars, dvars, wvars>>

BuildInit ==
    /\ b_lines \in BuildInputs /\ b_out = NotBuilt
    /\ RunnerIdle /\ PlayerIdle /\ ParserIdle /\ EvalIdle /\ StoreIdle /\ WaitIdle

BuildNext == Build

BuildSpec == BuildInit /\ [][BuildNext]_vars

(***************************************************************************)
(* parse_lines on a source text with the aliases of the settings, one line *)
(* of the text per step, and build_ast on its result, as _run_call 303-310 *)
(* does with the text of a file.                                           *)
(***************************************************************************)
MaxText == 3

\* the raw lines the texts are made of
RawLines ==
    { <<>>, <<" ", " ">>, <<"#", " ", "c">>, <<" ", "#", "LOOP">>,
      <<"PRINT", " ", "a">>, <<"print", " ", " ", "a", " ", "#", " ", "c">>,
      <<"LOOP", " ", "2">>, <<"ENDLOOP">>, <<" ", "ENDIF", " ">>,
      <<"pos", " ", "1", " ", "2">>, <<"WENN", " ", "TRUE">>, <<"FOO", " ", "x">>,
      <<"TYPE", " ", "\"", "a", " ", "#", "b", "\"", "c">>,
      <<"TYPE", " ", "\"", "a", " ", " ", "b">>,
      <<"TYPE", " ", "\"", "a", "\\", "\"", "#", "b", "\"">> }

\* SettingsManager.syntax_sugar: alias to target, both upper-case
SugarMaps ==
    { <<>>,
      [a \in {"POS", "WENN", "FOO", "PRINT"} |->
          CASE a = "POS" -> "MOUSE_POS"
            [] a = "WENN" -> "IF"
            [] a = "FOO" -> "NOPE"
            [] a = "PRINT" -> "ENDLOOP"] }

\* parse_lines 79-82: one iteration of the loop over the lines
ParseLine ==
    /\ Len(s_done) < Len(s_text)
    /\ LET raw == s_text[Len(s_done) + 1]
           tokens == expand_sugar(tokenize(raw), s_sugar)
       IN  /\ s_done' = Append(s_done, [tokens |-> tokenize(raw), out |-> tokens])
           /\ s_result' = IF tokens # <<>> THEN Append(s_result, tokens) ELSE s_result
    /\ UNCHANGED <<s_text, s_sugar, s_ast, rvars, pvars, bvars, evars, dvars, wvars>>

\* runner._run_call 306-310: build_ast on what parse_lines returned
ParseBuild ==
    /\ Len(s_done) = Len(s_text) /\ s_ast = NotBuilt
    /\ s_ast' = build_ast(s_result)
    /\ UNCHANGED <<s_text, s_sugar, s_done, s_result, rvars, pvars, bvars, evars, dvars, wvars>>

ParseInit ==
    /\ s_text \in UNION {[1..n -> RawLines] : n \in 0..MaxText}
    /\ s_sugar \in SugarMaps
    /\ s_done = <<>> /\ s_result = <<>> /\ s_ast = NotBuilt
    /\ RunnerIdle /\ PlayerIdle /\ BuilderIdle /\ EvalIdle /\ StoreIdle /\ WaitIdle

ParseNext == ParseLine \/ ParseBuild

ParseSpec == ParseInit /\ [][ParseNext]_vars

(***************************************************************************)
(* eval_expr and eval_condition as functions of their arguments: token     *)
(* lists of up to MaxTokens tokens with the variables set or unset, and    *)
(* the conditions on literals and built-in predicates on every host.       *)
(***************************************************************************)
MaxTokens == 3

ExprTokens ==
    {"0", "2", "True", "abc", "$x", "$s", "+", "//", "==", "<", "AND", "NOT"}
ExprInputs == UNION {[1..n -> ExprTokens] : n \in 0..MaxTokens}

ExprStores ==
    { <<>>,
      [v \in {"$x", "$s"} |-> IF v = "$x" THEN IntV(2) ELSE StrV("abc")],
      [v \in {"$x", "$s"} |-> IF v = "$x" THEN BoolV(TRUE) ELSE StrV("")] }

CondInputs ==
    { <<"TRUE">>, <<"true", "abc">>, <<"1", "//", "0">>, <<"FALSE">>,
      <<"False", "or", "True">>, <<"0", "+", "2">>,
      <<"IMAGE_MATCH">>, <<"IMAGE_MATCH", "t.png">>,
      <<"PIXEL_COLOR", "1", "2">>, <<"PIXEL_COLOR", "1", "2", "3", "4", "5">>,
      <<"PIXEL_COLOR", "1", "2", "3", "4", "x">>,
      <<"PIXEL_COLOR", "1", "2", "3", "4", "5", "x">>,
      <<"WINDOW_EXISTS">>, <<"window_exists", "w">>,
      <<"FILE_EXISTS">>, <<"FILE_EXISTS", "f">> }

\* conditions that start with a literal and go on as an expression
LiteralInputs ==
    { <<"1", "==", "2">>, <<"TRUE", "AND", "$x">>, <<"0", "==", "0">>,
      <<"true", "//", "0">>, <<"False", "+", "$s">> }

\* eval_expr(tokens, variables, log)
EvalExpr ==
    /\ ~Called(e_expr)
    /\ e_expr' = eval_expr_call(e_tokens, e_store)
    /\ UNCHANGED <<e_tokens, e_store, e_env, e_cond, rvars, pvars, bvars, svars, dvars, wvars>>

\* eval_condition(tokens, templates_dir, log, variables)
EvalCondition ==
    /\ ~Called(e_cond)
    /\ e_cond' \in eval_condition_call(e_tokens, e_store, e_env)
    /\ UNCHANGED <<e_tokens, e_store, e_env, e_expr, rvars, pvars, bvars, svars, dvars, wvars>>

EvalInit ==
    /\ \/ e_tokens \in ExprInputs /\ e_store \in ExprStores /\ e_env = Env(TRUE, TRUE, TRUE)
       \/ e_tokens \in CondInputs /\ e_store = <<>> /\ e_env \in Envs
       \/ e_tokens \in LiteralInputs /\ e_store \in ExprStores /\ e_env \in Envs
    /\ e_expr = NotCalled /\ e_cond = NotCalled
    /\ RunnerIdle /\ PlayerIdle /\ BuilderIdle /\ ParserIdle /\ StoreIdle /\ WaitIdle

EvalNext == EvalExpr \/ EvalCondition

EvalSpec == EvalInit /\ [][EvalNext]_vars

(***************************************************************************)
(* One VariableStore (variable_store.py) with the dicts as_dict returns.   *)
(* Dicts are objects: d_heap[1] is self._vars, and a snapshot is the       *)
(* reference of the dict the observer was handed, which the observer may   *)
(* write to.                                                               *)
(***************************************************************************)
\* how many snapshots the model follows
MaxSnaps == 2

\* the names and values set on the store or written to a snapshot
StoreNames == {"$x", "$y"}
StoreValues == {IntV(1), IntV(2)}

\* as_dict returning self._vars itself
as_dict_Alias(heap) == [heap |-> heap, ref |-> 1]

\* line 26-27: dict(self._vars) is a new dict with the entries of self._vars
as_dict(heap) == [heap |-> Append(heap, heap[1]), ref |-> Len(heap) + 1]

\* line 23-24: self._vars[name] = value
store_set ==
    /\ \E name \in StoreNames, value \in StoreValues :
        d_heap' = [d_heap EXCEPT ![1] = Set(d_heap[1], name, value)]
    /\ d_op' = "set"
    /\ UNCHANGED <<d_snaps, rvars, pvars, bvars, svars, evars, wvars>>

\* as_dict is called and its result handed to the observer (runner.py 84-85,
\* 181-182)
store_as_dict ==
    /\ Len(d_snaps) < MaxSnaps
    /\ \E r \in {as_dict(d_heap)} :
        /\ d_heap' = r.heap
        /\ d_snaps' = Append(d_snaps, r.ref)
    /\ d_op' = "as_dict"
    /\ UNCHANGED <<rvars, pvars, bvars, svars, evars, wvars>>

\* the observer adds or changes an entry of a dict it was handed
\* (tests/test_variable_store.py 22-30)
snapshot_write ==
    /\ \E i \in 1..Len(d_snaps), name \in StoreNames, value \in StoreValues :
        d_heap' = [d_heap EXCEPT ![d_snaps[i]] = Set(d_heap[d_snaps[i]], name, value)]
    /\ d_op' = "write"
    /\ UNCHANGED <<d_snaps, rvars, pvars, bvars, svars, evars, wvars>>

\* line 16-17: a new store owns one empty dict
StoreInit ==
    /\ d_heap = << <<>> >> /\ d_snaps = <<>> /\ d_op = ""
    /\ RunnerIdle /\ PlayerIdle /\ BuilderIdle /\ ParserIdle /\ EvalIdle /\ WaitIdle

StoreNext == store_set \/ store_as_dict \/ snapshot_write

StoreSpec == StoreInit /\ [][StoreNext]_vars

(***************************************************************************)
(* One call of CommandExecutor._sleep (executor.py 135-149) while another  *)
(* thread may call stop().  Times are whole microseconds; the speed is in  *)
(* hundredths, so that the divisions of the inputs are exact.              *)
(***************************************************************************)
\* the durations asked for, in milliseconds, and the playback speeds
WaitMs == {-50, 0, 1, 30, 50, 120, 160}
Speeds == {0, 50, 100, 200}

\* line 142: chunk = 0.05
Chunk == 50000

\* line 140-141: speed = max(0.01, playback_speed), target = ms / speed / 1000.0
Target ==
    LET speed == IF w_speed < 1 THEN 1 ELSE w_speed
    IN  (w_ms * 100000) \div speed

\* a loop that never looks at the stop event
sleep_poll_Unchecked(elapsed, target, flag) ==
    IF ~(elapsed < target) THEN 0
    ELSE IF Chunk < target - elapsed THEN Chunk ELSE target - elapsed

\* line 144-147: the loop test, the look at the stop event, and t; 0 when
\* _sleep returns
sleep_poll(elapsed, target, flag) ==
    IF ~(elapsed < target) THEN 0
    ELSE IF flag THEN 0
    ELSE IF Chunk < target - elapsed THEN Chunk ELSE target - elapsed

\* line 144-147
wait_poll ==
    /\ w_pc = "poll"
    /\ \E t \in {sleep_poll(w_elapsed, Target, w_flag)} :
        /\ w_t' = t
        /\ w_pc' = IF t = 0 THEN "done" ELSE "sleep"
    /\ UNCHANGED <<w_ms, w_speed, w_elapsed, w_flag, w_chunks, w_late>>
    /\ UNCHANGED <<rvars, pvars, bvars, svars, evars, dvars>>

\* line 148-149: time.sleep(t) is over
wait_sleep ==
    /\ w_pc = "sleep"
    /\ w_elapsed' = w_elapsed + w_t
    /\ w_chunks' = Append(w_chunks, w_t)
    /\ w_late' = IF w_flag THEN w_late + 1 ELSE w_late
    /\ w_pc' = "poll"
    /\ UNCHANGED <<w_ms, w_speed, w_t, w_flag>>
    /\ UNCHANGED <<rvars, pvars, bvars, svars, evars, dvars>>

\* _PlaybackThread.stop (player.py 61-62) on the main thread sets the event
wait_stop ==
    /\ w_pc \in {"poll", "sleep"} /\ ~w_flag
    /\ w_flag' = TRUE
    /\ UNCHANGED <<w_ms, w_speed, w_pc, w_elapsed, w_t, w_chunks, w_late>>
    /\ UNCHANGED <<rvars, pvars, bvars, svars, evars, dvars>>

\* line 143: elapsed = 0.0; the event may be set before the call
WaitInit ==
    /\ w_ms \in WaitMs /\ w_speed \in Speeds /\ w_flag \in BOOLEAN
    /\ w_pc = "poll" /\ w_elapsed = 0 /\ w_t = 0 /\ w_chunks = <<>> /\ w_late = 0
    /\ RunnerIdle /\ PlayerIdle /\ BuilderIdle /\ ParserIdle /\ EvalIdle /\ StoreIdle

WaitNext == wait_poll \/ wait_sleep \/ wait_stop

WaitSpec == WaitInit /\ [][WaitNext]_vars

(***************************************************************************)
(* Reading the trace.                                                      *)
(***************************************************************************)
Last(q) == q[Len(q)]
IsLeaf(e) == e.ev \in {"cmd", "assign", "call"}
IsPrint(e) == e.ev = "cmd" /\ e.name = "PRINT"
IsCond(e) == e.ev = "cond"
\* the first argument of every PRINT the executor saw, in order
Printed == LET q == SelectSeq(trace, IsPrint) IN [i \in 1..Len(q) |-> q[i].args[1]]
Conds == SelectSeq(trace, IsCond)
\* the run ended and nobody asked it to stop
Undisturbed == status = "finished" /\ ~stop_event
Kinds == {stack[i].k : i \in 1..Len(stack)}
\* the run frame on top is the try body of a TryCatch
InTryBody ==
    /\ Len(stack) >= 2 /\ Top.k = "run"
    /\ stack[Len(stack) - 1].k = "try" /\ stack[Len(stack) - 1].pc = "try"

(***************************************************************************)
(* C1: once the cancellation signal is raised (by EXIT or by a flag check) *)
(* every frame lets it pass: each step only removes the innermost frame,   *)
(* no node starts, no variable changes, and when the last frame is gone    *)
(* the run ends with the interrupted message.                              *)
(***************************************************************************)
C1_ExitReachesTop ==
    [][sig = "Exit" =>
        /\ trace' = trace /\ stores' = stores
        /\ \/ stack # <<>> /\ stack' = Pop /\ sig' = "Exit" /\ status' = "running"
           \/ stack = <<>> /\ status' = "finished"
                /\ log' = Append(log, Msg("INFO", "interrupted"))
           \/ stop_event' # stop_event /\ stack' = stack /\ sig' = "Exit"
                /\ status' = "running"
       ]_rvars

\* an EXIT in a callee, inside Repeat in While, called from If in Try in Loop,
\* has ended the whole run
C1_Witness ==
    /\ prog = "exit_nested" /\ Undisturbed
    /\ Last(log) = Msg("INFO", "interrupted")
    /\ Last(trace).name = "EXIT" /\ Last(trace).depth = 1
    /\ Printed = <<>>

(***************************************************************************)
(* C2 as stated: once the cancellation flag is set, no Command, Assign or  *)
(* Call node is started.                                                   *)
(***************************************************************************)
C2_NoLeafAfterStop ==
    \A i \in 1..Len(trace) : IsLeaf(trace[i]) => ~trace[i].stopped

\* the leaf nodes that were started while the flag was already set
StartedAfterStop == {i \in 1..Len(trace) : IsLeaf(trace[i]) /\ trace[i].stopped}

(***************************************************************************)
(* C2 amended: a node is handed to _run_node only by run, right after a    *)
(* check that found the flag clear; a check that finds the flag set starts *)
(* nothing and raises the cancellation signal; so after the flag is set at *)
(* most one Command, Assign or Call node is started, the one whose check   *)
(* had already passed.                                                     *)
(***************************************************************************)
C2_AtMostOneLeafAfterStop ==
    /\ [](Cardinality(StartedAfterStop) <= 1)
    /\ [][ /\ (Len(trace') > Len(trace) /\ IsLeaf(Last(trace')))
                => (Normal /\ Top.k = "run" /\ Top.pc = "node")
           /\ (stack' # stack /\ stack' # <<>> /\ Top'.k = "run" /\ Top'.pc = "node")
                => (~stop_event /\ Top.k = "run" /\ Top.pc = "check")
           /\ (stop_event /\ Normal /\ Top.k = "run" /\ Top.pc = "check"
                /\ Top.i <= Len(Top.nodes))
                => (sig' = "Exit" /\ trace' = trace /\ stores' = stores)
         ]_rvars

\* the flag was set after a check had passed: that one node ran, the next check
\* ended the run
C2_Witness ==
    /\ status = "finished" /\ Cardinality(StartedAfterStop) = 1
    /\ Last(log) = Msg("INFO", "interrupted")
    /\ Last(trace).stopped /\ IsLeaf(Last(trace))

(***************************************************************************)
(* C3 as stated: when a command of a try body makes the executor raise,    *)
(* the TryCatch catches the failure and the rest of the try body does not  *)
(* run: no state has the try body going on to its next node after such a   *)
(* command.                                                                *)
(***************************************************************************)
C3_CatchRunsOnExecutorFailure ==
    ~ ( /\ status = "running" /\ sig = "none" /\ InTryBody
        /\ Top.pc = "check" /\ Top.i > 1
        /\ Top.nodes[Top.i - 1].kind = "Cmd"
        /\ trace # <<>> /\ Last(trace).ev = "cmd"
        /\ Last(trace).res \in {"ValueError", "Exception"}
        /\ Last(trace).line = Top.nodes[Top.i - 1].line_num )

(***************************************************************************)
(* C4: a BREAK, CONTINUE or RETURN that reaches a TryCatch leaves it       *)
(* unchanged and logs nothing; in try_flow the BREAK in the try body ends  *)
(* the loop, the CONTINUE re-tests the While, the RETURN ends the callee,  *)
(* and no catch body ever runs.                                            *)
(***************************************************************************)
C4_FlowPassesTry ==
    /\ [][(Raised /\ Top.k = "try" /\ sig \in {"Break", "Continue", "Return"}
            /\ stack' # stack)
            => (stack' = Pop /\ sig' = sig /\ log' = log /\ trace' = trace)]_rvars
    /\ [](prog = "try_flow" =>
            /\ \A i \in 1..Len(log) : log[i].text # "TRY block caught"
            /\ \A i \in 1..Len(Printed) : i <= 2 /\ Printed[i] = <<"a", "f">>[i]
            /\ Undisturbed => (Printed = <<"a", "f">>
                               /\ Last(log) = Msg("SUCCESS", "completed")
                               /\ Len(Conds) = 3))

C4_Witness ==
    /\ prog = "try_flow" /\ Undisturbed
    /\ \E i \in 1..Len(trace) : trace[i].name = "BREAK"
    /\ \E i \in 1..Len(trace) : trace[i].name = "CONTINUE"
    /\ \E i \in 1..Len(trace) : trace[i].name = "RETURN" /\ trace[i].depth = 1

(***************************************************************************)
(* C5: no runner is deeper than MAX_CALL_DEPTH; a Call met at that depth   *)
(* logs the depth error, runs nothing of the callee, changes no variable   *)
(* and leaves its runner at the next node; the self-calling script rec     *)
(* therefore ends, having entered MAX_CALL_DEPTH + 1 runners.              *)
(***************************************************************************)
C5_DepthBounded ==
    /\ [](\A i \in 1..Len(stack) : stack[i].depth \in 0..MAX_CALL_DEPTH)
    /\ [][(AtNode("Call") /\ Top.depth >= MAX_CALL_DEPTH /\ stack' # stack)
            => /\ stack' = Advanced /\ stores' = stores /\ sig' = "none"
               /\ log' = Append(log, Msg("ERROR", "CALL: depth limit"))
               /\ Last(trace').res = "refused"]_rvars
    /\ [](prog = "rec" /\ Undisturbed =>
            /\ Len(Printed) = MAX_CALL_DEPTH + 1
            /\ Get(stores[1], "$d") = IntV(MAX_CALL_DEPTH + 1)
            /\ Last(log) = Msg("SUCCESS", "completed"))

\* the deepest runner has just been refused its Call
C5_Witness ==
    /\ prog \in {"rec", "ping"} /\ Active /\ Top.depth = MAX_CALL_DEPTH
    /\ trace # <<>> /\ Last(trace).ev = "call" /\ Last(trace).res = "refused"
    /\ Last(log) = Msg("ERROR", "CALL: depth limit")

(***************************************************************************)
(* C6: a RETURN raised in a callee removes the callee's frames one by one, *)
(* whatever they are, and stops at the Call, which completes normally: the *)
(* caller's runner is left at the Call node, ready for the next node.  In  *)
(* ret the callee returns from inside Try in If in Loop, the caller prints *)
(* after each Call and its own loop runs both iterations.                  *)
(***************************************************************************)
C6_ReturnEndsCalleeOnly ==
    /\ [][(Active /\ sig = "Return" /\ stack' # stack)
            => /\ stack' = Pop /\ trace' = trace /\ stores' = stores
               /\ IF Top.k = "call"
                  THEN /\ sig' = "none" /\ Top'.k = "run" /\ Top'.pc = "wait"
                       /\ Top'.depth = Top.depth /\ Top'.nodes[Top'.i] = Top.node
                  ELSE sig' = "Return"]_rvars
    /\ [](prog = "ret" =>
            /\ \A i \in 1..Len(Printed) :
                 i <= 3 /\ Printed[i] = <<"after_call", "after_call", "end">>[i]
            /\ Undisturbed => /\ Printed = <<"after_call", "after_call", "end">>
                              /\ Get(stores[1], "$r") = IntV(2)
                              /\ Last(log) = Msg("SUCCESS", "completed"))

C6_Witness ==
    /\ prog = "ret" /\ Undisturbed /\ Printed = <<"after_call", "after_call", "end">>
    /\ \E i \in 1..Len(trace) : trace[i].name = "RETURN" /\ trace[i].depth = 1

(***************************************************************************)
(* C7: every runner of a run, at every depth, holds the one store of the   *)
(* run.  In share the callee computes $b from the caller's $a, its own     *)
(* callee doubles $b, it sets $a and returns by RETURN, and the caller     *)
(* then prints the values both callees left.                               *)
(***************************************************************************)
C7_OneStore ==
    /\ [](Len(stores) = 1 /\ \A i \in 1..Len(stack) : stack[i].vs = 1)
    /\ [](prog = "share" /\ Undisturbed =>
            LET a0 == trace[1].snap["$a"].n
            IN  /\ Last(trace).args = <<"2", DecStr[2 * (a0 + 1) + 1]>>
                /\ stores[1]["$a"] = IntV(2)
                /\ stores[1]["$b"] = IntV(2 * (a0 + 1)))

C7_Witness ==
    /\ prog = "share" /\ Undisturbed /\ Last(trace).args = <<"2", "12">>
    /\ \E i \in 1..Len(trace) : trace[i].ev = "assign" /\ trace[i].depth = 2

(***************************************************************************)
(* C8: in ifchain ($x in 0..3; IF $x == 1, ELSEIF $x >= 1, ELSEIF          *)
(* WINDOW_EXISTS, ELSE) the conditions are evaluated in source order, one  *)
(* is evaluated only when all before it were false, none after the first   *)
(* true one; the body that runs is that of the first true branch, the else *)
(* body runs only after all three were false, and never two bodies run.    *)
(***************************************************************************)
IsIfBody(x) == x # "after"
IfBodies == SelectSeq(Printed, IsIfBody)
IfBodyNames == <<"one", "two", "win">>

C8_FirstTrueBranchOnly ==
    prog = "ifchain" =>
        /\ Len(Conds) <= 3
        /\ \A i \in 1..Len(Conds) :
            /\ Conds[i].args = ifchain[2].branches[i].condition
            /\ i < Len(Conds) => Conds[i].res = "false"
        /\ Len(Conds) >= 1 => (Conds[1].res = "true" <=> Get(stores[1], "$x") = IntV(1))
        /\ Len(Conds) >= 2 => (Conds[2].res = "true" <=> Get(stores[1], "$x").n >= 1)
        /\ Len(IfBodies) <= 1
        /\ \A k \in 1..3 : (IfBodies = <<IfBodyNames[k]>>)
                              => (Len(Conds) = k /\ Conds[k].res = "true")
        /\ IfBodies = <<"else">> => (Len(Conds) = 3 /\ Conds[3].res = "false")
        /\ Undisturbed => /\ Len(IfBodies) = 1 /\ Printed = IfBodies \o <<"after">>
                          /\ Conds[Len(Conds)].res = "false" <=> IfBodies = <<"else">>

\* the second branch ran: the first was false, the third was never evaluated
C8_Witness ==
    /\ prog = "ifchain" /\ Undisturbed /\ Printed = <<"two", "after">>
    /\ Len(Conds) = 2 /\ Get(stores[1], "$x") = IntV(3)

(***************************************************************************)
(* C9: in loopcount ($n in 0..2; LOOP $n with a body that adds 2 to $n)    *)
(* the body runs as many times as $n was at loop entry, never more, though *)
(* the body changes $n before every later iteration.                       *)
(***************************************************************************)
IsIt(x) == x = "it"
Iterations == Len(SelectSeq(Printed, IsIt))

C9_CountEvaluatedOnce ==
    (prog = "loopcount" /\ trace # <<>>) =>
        LET n0 == trace[1].snap["$n"].n
        IN  /\ Iterations <= n0
            /\ Undisturbed => /\ Iterations = n0
                              /\ Get(stores[1], "$n") = IntV(3 * n0)
                              /\ Len(Printed) = n0 + 2

C9_Witness ==
    /\ prog = "loopcount" /\ Undisturbed /\ Iterations = 2
    /\ Get(stores[1], "$n") = IntV(6)

(***************************************************************************)
(* C10: a BREAK that reaches a Loop, While or Repeat from its body removes *)
(* that loop only and execution goes on after it; a CONTINUE leaves the    *)
(* loop in place and moves it to its next iteration: the next counted      *)
(* iteration of a Loop, the test of a While, the UNTIL test of a Repeat.   *)
(* In brk the three inner loops break and the outer one runs twice; in     *)
(* cont the rest of each body is skipped and each loop still ends as its   *)
(* count or condition says.                                                *)
(***************************************************************************)
LoopKinds == {"loop", "while", "repeat"}

C10_BreakContinueInnermost ==
    /\ [][(Raised /\ Top.k \in LoopKinds /\ Top.pc = "body" /\ stack' # stack)
            => /\ sig = "Break" =>
                    /\ stack' = Pop /\ sig' = "none" /\ trace' = trace
                    /\ Top'.k = "run" /\ Top'.pc = "wait" /\ Top'.nodes[Top'.i] = Top.node
               /\ sig = "Continue" =>
                    /\ sig' = "none" /\ trace' = trace
                    /\ stack' = SetTop(
                         CASE Top.k = "loop"   -> [Top EXCEPT !.pc = "top", !.i = @ + 1]
                           [] Top.k = "while"  -> [Top EXCEPT !.pc = "cond", !.i = @ + 1]
                           [] Top.k = "repeat" -> [Top EXCEPT !.pc = "until"])]_rvars
    /\ [](prog = "brk" =>
            /\ \A i \in 1..Len(Printed) : Printed[i] \notin {"b", "d", "f"}
            /\ Undisturbed =>
                 Printed = <<"a", "c", "e", "g", "a", "c", "e", "g", "after">>)
    /\ [](prog = "cont" =>
            /\ \A i \in 1..Len(Printed) : Printed[i] \notin {"b", "d", "f"}
            /\ Undisturbed =>
                 /\ Printed = <<"a", "a", "after">>
                 /\ [i \in 1..Len(Conds) |-> Conds[i].res]
                      = <<"true", "true", "false", "false", "true">>
                 /\ Get(stores[1], "$x") = IntV(2) /\ Get(stores[1], "$r") = IntV(2))

\* the inner loops were broken twice each and the outer loop completed
C10_Witness ==
    /\ prog = "brk" /\ Undisturbed
    /\ Printed = <<"a", "c", "e", "g", "a", "c", "e", "g", "after">>

\* each of the three loops was continued and ended on its own terms
C10_WitnessContinue ==
    /\ prog = "cont" /\ Undisturbed /\ Printed = <<"a", "a", "after">>

\* how many times PRINT x reached the executor
Times(x) == Cardinality({i \in 1..Len(Printed) : Printed[i] = x})
\* how many messages with this text were logged
Logged(text) == Cardinality({i \in 1..Len(log) : log[i].text = text})

(***************************************************************************)
(* C11: a While frame never counts more than MAX_ITERATIONS iterations and *)
(* is in its body only below the ceiling; when its true condition meets    *)
(* the ceiling (no stop requested) the While logs the one warning, starts  *)
(* nothing and returns normally to its runner, which goes on with the next *)
(* node.  In limits the first While (WHILE TRUE / PRINT w) has printed w   *)
(* exactly MAX_ITERATIONS times once the node after it runs, its condition *)
(* was evaluated MAX_ITERATIONS + 1 times, and the undisturbed run         *)
(* completes.                                                              *)
(***************************************************************************)
C11_WhileCeiling ==
    /\ [](\A i \in 1..Len(stack) : stack[i].k = "while" =>
            /\ stack[i].i \in 0..MAX_ITERATIONS
            /\ stack[i].pc = "body" => stack[i].i < MAX_ITERATIONS)
    /\ [][(Normal /\ Top.k = "while" /\ Top.pc = "stop" /\ ~stop_event
            /\ Top.i >= MAX_ITERATIONS /\ stack' # stack)
            => /\ stack' = Pop /\ sig' = "none" /\ trace' = trace /\ stores' = stores
               /\ log' = Append(log, Msg("WARNING", "WHILE: iteration limit"))
               /\ Top'.k = "run" /\ Top'.pc = "wait" /\ Top'.nodes[Top'.i] = Top.node
          ]_rvars
    /\ [](prog = "limits" =>
            /\ Times("w") <= MAX_ITERATIONS
            /\ Times("r") > 0 =>
                 /\ Times("w") = MAX_ITERATIONS
                 /\ log[1] = Msg("WARNING", "WHILE: iteration limit")
                 /\ \A i \in 1..(MAX_ITERATIONS + 1) :
                      IsCond(trace[2 * i - 1]) /\ trace[2 * i - 1].res = "true"
                 /\ \A i \in 1..MAX_ITERATIONS : trace[2 * i].args = <<"w">>
            /\ Undisturbed => /\ Last(Printed) = "after"
                              /\ Last(log) = Msg("SUCCESS", "completed"))

\* the never-false While ran into the ceiling and the run went on to its end
C11_Witness ==
    /\ prog = "limits" /\ Undisturbed /\ Times("w") = MAX_ITERATIONS
    /\ Logged("WHILE: iteration limit") >= 1 /\ Last(Printed) = "after"

(***************************************************************************)
(* C12: entering a Repeat evaluates nothing; at the top of an iteration,   *)
(* with no stop requested and below the ceiling, the body starts without   *)
(* any test; when the body has returned the condition is evaluated, and    *)
(* the Repeat returns if it is true and otherwise counts the iteration and *)
(* goes back to the top, where the ceiling ends it with one warning.  In   *)
(* rep the body of REPEAT .. UNTIL TRUE runs once before its test, the     *)
(* counting Repeat runs until $r >= 2 and the Repeat on an oracle runs 1   *)
(* to MAX_ITERATIONS times; in limits REPEAT .. UNTIL FALSE runs its body  *)
(* exactly MAX_ITERATIONS times and the run goes on.                       *)
(***************************************************************************)
C12_RepeatPostTest ==
    /\ [](\A i \in 1..Len(stack) : stack[i].k = "repeat" =>
            /\ stack[i].i \in 0..MAX_ITERATIONS
            /\ stack[i].pc \in {"body", "until"} => stack[i].i < MAX_ITERATIONS)
    /\ [][/\ (AtNode("Repeat") /\ stack' # stack)
                => /\ trace' = trace /\ Top'.k = "repeat" /\ Top'.pc = "top" /\ Top'.i = 0
          /\ (Normal /\ Top.k = "repeat" /\ Top.pc = "top" /\ ~stop_event /\ stack' # stack)
                => /\ trace' = trace /\ sig' = "none"
                   /\ IF Top.i < MAX_ITERATIONS
                      THEN /\ stack' = Append(SetTop([Top EXCEPT !.pc = "body"]),
                                              RunFrame(Top.node.body, Top.depth, Top.vs))
                           /\ log' = log
                      ELSE /\ stack' = Pop
                           /\ log' = Append(log, Msg("WARNING", "REPEAT: iteration limit"))
          /\ (Normal /\ Top.k = "repeat" /\ Top.pc = "until" /\ stack' # stack)
                => /\ Len(trace') = Len(trace) + 1 /\ IsCond(Last(trace'))
                   /\ Last(trace').args = Top.node.condition /\ sig' = "none"
                   /\ Last(trace').res = "true" <=> stack' = Pop
                   /\ Last(trace').res = "false" <=>
                        stack' = SetTop([Top EXCEPT !.pc = "top", !.i = @ + 1])
          ]_rvars
    /\ [](prog = "rep" =>
            /\ Len(Conds) >= 1 => Printed[1] = "once" /\ trace[1].args = <<"once">>
            /\ Times("once") <= 1 /\ Times("it") <= 2 /\ Times("o") <= MAX_ITERATIONS
            /\ Times("o") >= 1 => (Times("once") = 1 /\ Times("it") = 2)
            /\ Undisturbed =>
                 /\ Times("o") >= 1 /\ Last(Printed) = "after"
                 /\ Len(Conds) = 3 + Times("o")
                 /\ \A i \in 1..Len(Conds) :
                      Conds[i].res = "false" <=>
                        (i = 2 \/ (i > 3 /\ i < Len(Conds))
                           \/ (i = Len(Conds) /\ Logged("REPEAT: iteration limit") = 1)))
    /\ [](prog = "limits" =>
            /\ Times("r") <= MAX_ITERATIONS
            /\ Times("l") > 0 => /\ Times("r") = MAX_ITERATIONS
                                 /\ Logged("REPEAT: iteration limit") = 1)

\* the body ran once before a true test; the oracle Repeat ran to the ceiling
C12_Witness ==
    /\ prog = "rep" /\ Undisturbed /\ Times("once") = 1
    /\ Times("o") = MAX_ITERATIONS /\ Logged("REPEAT: iteration limit") = 1

(***************************************************************************)
(* C13 as stated: under every interleaving of play, stop, the end of a     *)
(* playback thread and the delivery of its finished signal, at most one    *)
(* playback run is active.                                                 *)
(***************************************************************************)
C13_AtMostOneRun == Cardinality(ActiveRuns) <= 1

(***************************************************************************)
(* Block structure as the language defines it, read off the token lines    *)
(* alone: the blocks open at a line, innermost last, each in the state its *)
(* keywords have brought it to, and the first line whose terminator the    *)
(* innermost open block does not accept.                                   *)
(***************************************************************************)
Openers == {"LOOP", "WHILE", "REPEAT", "IF", "TRY"}
Terminators ==
    {"ENDLOOP", "ENDWHILE", "UNTIL", "ELSEIF", "ELSE", "ENDIF", "CATCH", "ENDTRY"}

\* whether a block in state open accepts the terminator kw
Accepts(open, kw) ==
    CASE open = "LOOP"   -> kw = "ENDLOOP"
      [] open = "WHILE"  -> kw = "ENDWHILE"
      [] open = "REPEAT" -> kw = "UNTIL"
      [] open = "IF"     -> kw \in {"ELSEIF", "ELSE", "ENDIF"}
      [] open = "ELSE"   -> kw = "ENDIF"
      [] open = "TRY"    -> kw \in {"CATCH", "ENDTRY"}
      [] open = "CATCH"  -> kw = "ENDTRY"

\* the open blocks after an accepted terminator
AfterTerminator(opens, kw) ==
    IF kw = "ELSEIF" THEN opens
    ELSE IF kw = "ELSE" THEN [opens EXCEPT ![Len(opens)] = "ELSE"]
    ELSE IF kw = "CATCH" THEN [opens EXCEPT ![Len(opens)] = "CATCH"]
    ELSE SubSeq(opens, 1, Len(opens) - 1)

\* the 1-based number of the first misplaced terminator line from line i on, 0 if none
RECURSIVE FirstMisplaced(_, _, _)
FirstMisplaced(lines, i, opens) ==
    IF i > Len(lines) THEN 0
    ELSE LET kw == Upper(lines[i][1])
         IN  IF kw \in Openers THEN FirstMisplaced(lines, i + 1, Append(opens, kw))
             ELSE IF kw \in Terminators THEN
                IF opens = <<>> \/ ~Accepts(opens[Len(opens)], kw) THEN i
                ELSE FirstMisplaced(lines, i + 1, AfterTerminator(opens, kw))
             ELSE FirstMisplaced(lines, i + 1, opens)

\* build_ast has returned or raised
BuildDone == b_out # NotBuilt

(***************************************************************************)
(* C14: when some terminator keyword of the token lines stands where the   *)
(* innermost open block does not accept it, or where no block is open,     *)
(* build_ast raises ParseError and hands back no node.                     *)
(***************************************************************************)
C14_StrayTerminatorFails ==
    (BuildDone /\ FirstMisplaced(b_lines, 1, <<>>) # 0)
        => (~b_out.ok /\ b_out.nodes = <<>> /\ b_out.line >= 1)

\* a second ELSE in an IF was refused
C14_Witness ==
    /\ BuildDone /\ ~b_out.ok
    /\ b_lines = << <<"IF", "TRUE">>, <<"ELSE">>, <<"PRINT", "a">>, <<"ELSE">> >>

(***************************************************************************)
(* C15: nothing runs before build_ast has returned, and when it raises     *)
(* ParseError, wherever the offending line is, nothing runs at all: no     *)
(* runner frame exists, no node is started, the store stays empty, and the *)
(* thread ends with the syntax error as its only message.                  *)
(***************************************************************************)
C15_ParseErrorRunsNothing ==
    /\ status = "starting" => (stack = <<>> /\ trace = <<>> /\ stores = << <<>> >>)
    /\ (status # "idle" /\ ~TopLevel(prog).ok) =>
            /\ stack = <<>> /\ trace = <<>> /\ stores = << <<>> >> /\ sig = "none"
            /\ status = "finished" => log = <<Msg("ERROR", "syntax error")>>
    /\ prog = "bad_tail" => ~TopLevel(prog).ok /\ TopLevel(prog).line = 6

\* the script whose sixth line is wrong ended without running its first five
C15_Witness ==
    /\ prog = "bad_tail" /\ status = "finished" /\ trace = <<>>
    /\ log = <<Msg("ERROR", "syntax error")>>

\* a Call that cannot run its callee, told from the call site and the files
FailingCall(depth, filename) ==
    \/ depth >= MAX_CALL_DEPTH
    \/ filename = ""
    \/ filename \notin DOMAIN MacroFiles
    \/ MacroFiles[filename].state \in {"missing", "unreadable"}
    \/ filename = "broken"

C17_CommandFailureContinues ==
    [][(AtNode("Cmd") /\ Node.tokens[1] \notin FlowCommands \cup {"MOUSE_GET_POS"}
        /\ stack' # stack /\ Last(trace').res # "ok")
        => /\ stack' = Advanced /\ sig' = "none" /\ stores' = stores
           /\ log' = Append(log, Msg(IF Node.tokens[1] \notin Dispatch
                                     THEN "WARNING" ELSE "ERROR", "command failed"))
      ]_rvars

(***************************************************************************)
(* The depth-first walk of a script of commands, assignments and calls:    *)
(* each node in source order, the whole callee right after its Call, a     *)
(* RETURN ending the body it stands in.                                    *)
(***************************************************************************)
Step(line, depth) == [line |-> line, depth |-> depth]

RECURSIVE Walk(_, _)
Walk(nodes, depth) ==
    IF nodes = <<>> THEN <<>>
    ELSE LET n == Head(nodes)
         IN  IF n.kind = "Cmd" /\ n.tokens[1] = "RETURN" THEN <<Step(n.line_num, depth)>>
             ELSE IF n.kind = "Call" /\ ~FailingCall(depth, n.filename)
                THEN <<Step(n.line_num, depth)>>
                        \o Walk(MacroFiles[n.filename].nodes, depth + 1)
                        \o Walk(Tail(nodes), depth)
             ELSE <<Step(n.line_num, depth)>> \o Walk(Tail(nodes), depth)

\* the leaf nodes started so far, as (line, depth)
Leaves ==
    LET q == SelectSeq(trace, IsLeaf)
    IN  [i \in 1..Len(q) |-> Step(q[i].line, q[i].depth)]
IsPrefix(a, b) == Len(a) <= Len(b) /\ SubSeq(b, 1, Len(a)) = a
\* the scripts made of commands, assignments and calls only
Straight == {"ping", "rec", "share", "calls"}

(***************************************************************************)
(* C18: only the innermost frame ever changes, so a body's runner stands   *)
(* still while a node of it is executing and moves on by exactly one node  *)
(* when that node has returned; a leaf is started only by the innermost    *)
(* runner; the callee's runner lies above the Call's frame until it has    *)
(* returned.  For the scripts of commands, assignments and calls the leaf  *)
(* nodes started are at every moment a prefix of the depth-first walk, and *)
(* the whole walk when the undisturbed run has ended.                      *)
(***************************************************************************)
C18_SequentialDepthFirst ==
    /\ [][/\ \A k \in 1..(Len(stack) - 1) : k < Len(stack') => stack'[k] = stack[k]
          /\ Len(stack') <= Len(stack) + 2
          /\ (Len(stack') = Len(stack) /\ stack # <<>> /\ Top.k = "run" /\ Top'.i # Top.i)
                => (Top'.i = Top.i + 1 /\ Top.pc \in {"node", "wait"} /\ Top'.pc = "check")
          /\ (Len(trace') > Len(trace) /\ IsLeaf(Last(trace')))
                => (Top.k = "run" /\ Last(trace').line = Top.nodes[Top.i].line_num
                    /\ Last(trace').depth = Top.depth)
          ]_rvars
    /\ [](prog \in Straight /\ status # "starting" =>
            /\ IsPrefix(Leaves, Walk(TopLevel(prog).nodes, 0))
            /\ Undisturbed => Leaves = Walk(TopLevel(prog).nodes, 0))

\* the mutually recursive scripts ran to the depth limit and back, in order
C18_Witness ==
    /\ prog = "ping" /\ Undisturbed /\ Len(Leaves) = 2 * (MAX_CALL_DEPTH + 1)
    /\ Leaves = Walk(ping, 0)
    /\ Printed[MAX_CALL_DEPTH \div 2 + 1] = "ping"
    /\ Printed[MAX_CALL_DEPTH \div 2 + 2] = "pong"

(***************************************************************************)
(* C19 as stated: a While looks at the cancellation flag before it         *)
(* evaluates its condition: when the flag is set as an iteration is about  *)
(* to begin, the While raises the cancellation signal and evaluates        *)
(* nothing.                                                                *)
(***************************************************************************)
C19_WhileChecksFlagFirst ==
    [][(Normal /\ Top.k = "while" /\ Top.pc = "cond" /\ stop_event /\ stack' # stack)
        => (sig' = "Exit" /\ trace' = trace)]_rvars

(***************************************************************************)
(* C20 as stated: in one activation of a Loop, a While or a Repeat the     *)
(* body is entered at most MAX_ITERATIONS times.                           *)
(***************************************************************************)
C20_HardLimitAllLoops ==
    \A k \in 1..Len(stack) :
        (stack[k].k \in LoopKinds /\ stack[k].pc = "body") => stack[k].i < MAX_ITERATIONS

(***************************************************************************)
(* C21: a run whose AST was built ends with exactly one of the messages of *)
(* _PlaybackThread.run 108-112 and logs none of them before its end: the   *)
(* interrupted message exactly when Exit left the outermost run(), the     *)
(* completed message exactly when the outermost run() returned with no     *)
(* exception in flight (any other escaping exception gives the playback    *)
(* error message); a run whose build failed logs none of them.             *)
(***************************************************************************)
TerminalTexts == {"completed", "interrupted", "playback error"}
Terminals == Cardinality({i \in 1..Len(log) : log[i].text \in TerminalTexts})

C21_OneTerminalMessage ==
    /\ [](Terminals = IF status = "finished" /\ Logged("syntax error") = 0 THEN 1 ELSE 0)
    /\ [](Logged("completed") + Logged("interrupted") <= 1)
    /\ [][(status = "running" /\ status' = "finished")
            => /\ stack = <<>> /\ Len(log') = Len(log) + 1
               /\ Last(log').text \in TerminalTexts
               /\ Last(log').text = "interrupted" <=> sig = "Exit"
               /\ Last(log').text = "completed" <=> sig = "none"]_rvars

\* a run stopped from outside after it had printed ended with the interrupted message
C21_Witness ==
    /\ status = "finished" /\ stop_event /\ Printed # <<>>
    /\ Logged("interrupted") = 1 /\ Logged("completed") = 0

(***************************************************************************)
(* The tree read back as a list, in source order: one entry per block node *)
(* (with the condition or count of its opening line), one per branch after *)
(* the first of an If, one for the condition of a Repeat, one per leaf     *)
(* (with its line); each with its nesting depth and the part of its parent *)
(* it stands in.                                                           *)
(***************************************************************************)
Entry(k, depth, seg, line, toks) ==
    [k |-> k, depth |-> depth, seg |-> seg, line |-> line, toks |-> toks]

RECURSIVE Flatten(_, _, _)
RECURSIVE FlattenBranches(_, _, _, _)
FlattenBranches(branches, i, d, seg) ==
    IF i > Len(branches) THEN <<>>
    ELSE <<Entry("ELSEIF", d, seg, -1, branches[i].condition)>>
            \o Flatten(branches[i].body, d + 1, "if")
            \o FlattenBranches(branches, i + 1, d, seg)

FlattenNode(n, d, seg) ==
    CASE n.kind = "Loop" ->
            <<Entry("LOOP", d, seg, -1, <<n.count_expr>>)>> \o Flatten(n.body, d + 1, "body")
      [] n.kind = "While" ->
            <<Entry("WHILE", d, seg, -1, n.condition)>> \o Flatten(n.body, d + 1, "body")
      [] n.kind = "Repeat" ->
            <<Entry("REPEAT", d, seg, -1, <<>>)>> \o Flatten(n.body, d + 1, "body")
                \o <<Entry("UNTIL", d, seg, -1, n.condition)>>
      [] n.kind = "If" ->
            <<Entry("IF", d, seg, -1, n.branches[1].condition)>>
                \o Flatten(n.branches[1].body, d + 1, "if")
                \o FlattenBranches(n.branches, 2, d, seg)
                \o Flatten(n.else_body, d + 1, "else")
      [] n.kind = "Try" ->
            <<Entry("TRY", d, seg, -1, <<>>)>> \o Flatten(n.try_body, d + 1, "try")
                \o Flatten(n.catch_body, d + 1, "catch")
      [] OTHER -> <<Entry("leaf", d, seg, n.line_num, <<>>)>>

Flatten(nodes, d, seg) ==
    IF nodes = <<>> THEN <<>>
    ELSE FlattenNode(Head(nodes), d, seg) \o Flatten(Tail(nodes), d, seg)

(***************************************************************************)
(* The same list read off the token lines: an opening keyword opens a      *)
(* block inside the innermost open one, ELSEIF, ELSE and CATCH start the   *)
(* next part of it, the closing keyword ends it, any other line is a leaf  *)
(* of the innermost open block.  At the end of the lines the blocks still  *)
(* open end there, a Repeat with no condition.                             *)
(***************************************************************************)
SegOf(opens) ==
    IF opens = <<>> THEN "body"
    ELSE CASE opens[Len(opens)] = "IF" -> "if"
           [] opens[Len(opens)] = "ELSE" -> "else"
           [] opens[Len(opens)] = "TRY" -> "try"
           [] opens[Len(opens)] = "CATCH" -> "catch"
           [] OTHER -> "body"

Outer(opens) == SubSeq(opens, 1, Len(opens) - 1)

OpeningToks(kw, tokens) ==
    CASE kw = "LOOP" -> IF Len(tokens) > 1 THEN <<tokens[2]>> ELSE <<"1">>
      [] kw \in {"WHILE", "IF"} -> Tail(tokens)
      [] OTHER -> <<>>

RECURSIVE EndOpen(_)
EndOpen(opens) ==
    IF opens = <<>> THEN <<>>
    ELSE (IF opens[Len(opens)] = "REPEAT"
          THEN <<Entry("UNTIL", Len(opens) - 1, SegOf(Outer(opens)), -1, <<>>)>>
          ELSE <<>>) \o EndOpen(Outer(opens))

RECURSIVE Scan(_, _, _)
Scan(lines, i, opens) ==
    IF i > Len(lines) THEN EndOpen(opens)
    ELSE LET kw == Upper(lines[i][1])
             d == Len(opens)
         IN  IF kw \in Openers
             THEN <<Entry(kw, d, SegOf(opens), -1, OpeningToks(kw, lines[i]))>>
                    \o Scan(lines, i + 1, Append(opens, kw))
             ELSE IF kw \in Terminators
             THEN (IF kw \in {"ELSEIF", "UNTIL"}
                   THEN <<Entry(kw, d - 1, SegOf(Outer(opens)), -1, Tail(lines[i]))>>
                   ELSE <<>>) \o Scan(lines, i + 1, AfterTerminator(opens, kw))
             ELSE <<Entry("leaf", d, SegOf(opens), i - 1, <<>>)>> \o Scan(lines, i + 1, opens)

\* the blocks still open after the last line
RECURSIVE OpenAt(_, _, _)
OpenAt(lines, i, opens) ==
    IF i > Len(lines) THEN opens
    ELSE LET kw == Upper(lines[i][1])
         IN  IF kw \in Openers THEN OpenAt(lines, i + 1, Append(opens, kw))
             ELSE IF kw \in Terminators THEN OpenAt(lines, i + 1, AfterTerminator(opens, kw))
             ELSE OpenAt(lines, i + 1, opens)

NoStray(lines) == FirstMisplaced(lines, 1, <<>>) = 0
Truncated(lines) == NoStray(lines) /\ OpenAt(lines, 1, <<>>) # <<>>
WellFormed(lines) == NoStray(lines) /\ OpenAt(lines, 1, <<>>) = <<>>

(***************************************************************************)
(* C22: when the token lines end with blocks still open (and no terminator *)
(* is misplaced), build_ast succeeds and the tree is the one of the lines  *)
(* with every open block ended after the last line: the lines after an     *)
(* unclosed opener are nodes inside that block, and a Repeat without UNTIL *)
(* has the empty condition.                                                *)
(***************************************************************************)
C22_OpenBlockRunsToEnd ==
    (BuildDone /\ Truncated(b_lines))
        => /\ b_out.ok
           /\ Flatten(b_out.nodes, 0, "body") = Scan(b_lines, 1, <<>>)
           /\ Last(b_out.nodes).kind \in {"Loop", "While", "Repeat", "If", "Try"}

\* REPEAT, a command, LOOP 2, a command: the Loop with its command ends the body of
\* the Repeat, which has no condition
C22_Witness ==
    /\ b_lines = << <<"REPEAT">>, <<"PRINT", "a">>, <<"LOOP", "2">>, <<"PRINT", "a">> >>
    /\ b_out = Built(<<RepeatNode(<<P("a", 1), LoopNode("2", <<P("a", 3)>>)>>, <<>>)>>)

(***************************************************************************)
(* C23: for token lines in which every block is closed and no terminator   *)
(* is misplaced, build_ast succeeds and the tree, read back in order, is   *)
(* the list of the lines: one block node per opening keyword with its      *)
(* condition, one branch per ELSEIF in order, one leaf per other           *)
(* non-terminator line, each at the depth and in the part (branch, else,   *)
(* try, catch, body) of the innermost block open at its line.              *)
(***************************************************************************)
C23_TreeMatchesLines ==
    (BuildDone /\ WellFormed(b_lines))
        => /\ b_out.ok
           /\ Flatten(b_out.nodes, 0, "body") = Scan(b_lines, 1, <<>>)

\* a Try holding an If with an ELSEIF and an ELSE, and a Repeat in its catch body
C23_Witness ==
    /\ BuildDone /\ b_out.ok /\ WellFormed(b_lines) /\ Len(b_lines) = 9
    /\ b_out.nodes[1].kind = "Try" /\ Len(b_out.nodes[1].try_body[1].branches) = 2
    /\ b_out.nodes[1].catch_body[1].kind = "Repeat"

(***************************************************************************)
(* Reading a parsed text.                                                  *)
(***************************************************************************)
\* the 1-based numbers of the lines of the text that gave a token line, in order
KeptLines == SelectSeq([i \in 1..Len(s_done) |-> IF s_done[i].out # <<>> THEN i ELSE 0],
                       LAMBDA i : i # 0)
ParseDone == s_ast # NotBuilt

(***************************************************************************)
(* C24 as stated: when build_ast fails on the token lines parse_lines made *)
(* of a text, the line number of the ParseError is the 1-based number, in  *)
(* the text, of the line that holds the misplaced terminator.              *)
(***************************************************************************)
C24_ErrorLineIsSourceLine ==
    (ParseDone /\ ~s_ast.ok)
        => s_ast.line = KeptLines[FirstMisplaced(s_result, 1, <<>>)]

(***************************************************************************)
(* C25 as stated: for every line read, the arguments after the first token *)
(* are those of tokenize; a first token that is an alias is replaced by    *)
(* its target when the target is a command the executor knows and no block *)
(* keyword, and the token line stays as it was when the target is a block  *)
(* keyword or an unknown name.                                             *)
(***************************************************************************)
BlockKeywords == Openers \cup Terminators
Executable(name) == name \in Dispatch \ BlockKeywords

C25_SugarOnlyOntoCommands ==
    \A i \in 1..Len(s_done) :
        LET tokens == s_done[i].tokens
            out == s_done[i].out
        IN  tokens # <<>> =>
              /\ Len(out) = Len(tokens) /\ Tail(out) = Tail(tokens)
              /\ Upper(tokens[1]) \in DOMAIN s_sugar =>
                    IF Executable(s_sugar[Upper(tokens[1])])
                    THEN out[1] = s_sugar[Upper(tokens[1])]
                    ELSE out = tokens

(***************************************************************************)
(* C26 as stated: every Assign that completes, whatever its right-hand     *)
(* side, leaves its value in the store under the target name and hands the *)
(* observer one snapshot, which is the store with the new value.           *)
(***************************************************************************)
C26_AssignNotifies ==
    [][(AtNode("Assign") /\ Len(trace') = Len(trace) + 1 /\ Last(trace').res = "ok")
        => /\ Node.var_name \in DOMAIN stores'[Top.vs]
           /\ Last(trace').snap # NoSnap
           /\ Last(trace').snap = stores'[Top.vs]]_rvars

(***************************************************************************)
(* C27: the arguments the executor receives for a Command are the node's   *)
(* arguments, each one that starts with $ replaced by str() of the value   *)
(* the runner's store holds for it when the command is dispatched, "0" if  *)
(* it holds none, the others as written; what an earlier assignment of the *)
(* run, also one made in a callee, stored is what is substituted.          *)
(***************************************************************************)
\* the arguments of every PRINT the executor saw, in order
PrintArgs == LET q == SelectSeq(trace, IsPrint) IN [i \in 1..Len(q) |-> q[i].args]
Executed(e) == e.ev = "cmd" /\ e.res \notin {"flow", "getpos"}

C27_ArgsResolvedAtDispatch ==
    /\ [][(AtNode("Cmd") /\ Len(trace') = Len(trace) + 1 /\ Executed(Last(trace')))
            => LET given == Tail(Node.tokens)
                   seen == Last(trace').args
               IN  /\ Len(seen) = Len(given)
                   /\ \A i \in 1..Len(given) :
                        seen[i] = IF IsVar(given[i])
                                  THEN (IF given[i] \in DOMAIN stores[Top.vs]
                                        THEN Str(stores[Top.vs][given[i]]) ELSE "0")
                                  ELSE given[i]]_rvars
    /\ [](prog = "subst" =>
            IsPrefix(PrintArgs, << <<"0", "lit", "a$x">>, <<"True", "word", "True">> >>))
    /\ [](prog = "share" /\ status = "finished" /\ ~stop_event =>
            PrintArgs \in { << <<"2", "10">> >>, << <<"2", "12">> >> })

\* both PRINT commands of subst were executed
C27_Witness == prog = "subst" /\ Len(PrintArgs) = 2 /\ PrintArgs[2][1] = "True"

(***************************************************************************)
(* C28: eval_expr returns on every token list.  When the list has several  *)
(* tokens and Python cannot evaluate the text (it does not compile, a name *)
(* is unknown, the operand types do not fit, a division is by zero), the   *)
(* value is the integer 0 and one warning is logged; otherwise nothing is  *)
(* logged.                                                                 *)
(***************************************************************************)
\* Python refuses the expression of the tokens
Unevaluable(tokens, store) == Len(tokens) > 1 /\ eval_compile(tokens, store).exc # "none"

C28_EvalExprNeverRaises ==
    Called(e_expr) =>
        /\ ~e_expr.raised
        /\ Unevaluable(e_tokens, e_store) => e_expr.val = IntV(0) /\ e_expr.warns = 1
        /\ ~Unevaluable(e_tokens, e_store) => e_expr.warns = 0
        /\ e_tokens \in {<<"2", "//", "0">>, <<"2", "+">>, <<"abc", "+", "2">>,
                          <<"True", "<", "abc">>, <<"2", "2">>}
                => e_expr.val = IntV(0) /\ e_expr.warns = 1
        /\ (e_tokens = <<"$s", "+", "2">> /\ e_store # <<>>)
                => e_expr.val = IntV(0) /\ e_expr.warns = 1
        /\ e_tokens = <<"2", "+", "2">> => e_expr.val = IntV(4) /\ e_expr.warns = 0
        /\ e_tokens = <<"0", "AND", "abc">> => e_expr.val = IntV(0) /\ e_expr.warns = 0

\* a division by zero was evaluated
C28_Witness ==
    /\ Called(e_expr) /\ e_tokens = <<"$x", "//", "0">> /\ e_store # <<>>
    /\ e_expr.val = IntV(0) /\ e_expr.warns = 1

(***************************************************************************)
(* C29: eval_condition gives false on no token, true when the first token  *)
(* is TRUE or 1 and false when it is FALSE or 0, in any case of letters    *)
(* and whatever follows; when the first token is neither such a literal    *)
(* nor the name of a predicate, it gives the truth value of what eval_expr *)
(* returns for the whole list under the store handed in (a number other    *)
(* than 0, a string other than "", or true), hence false when the          *)
(* expression cannot be evaluated.                                         *)
(***************************************************************************)
TrueWords == {"TRUE", "true", "True", "1"}
FalseWords == {"FALSE", "false", "False", "0"}
IsTrue(v) == IF v.t = "str" THEN v.s # "" ELSE v.n # 0

C29_ConditionLiteralsAndTruthiness ==
    Called(e_cond) =>
        /\ e_tokens = <<>> => ~e_cond.raised /\ e_cond.val = FALSE
        /\ (e_tokens # <<>> /\ e_tokens[1] \in TrueWords)
                => ~e_cond.raised /\ e_cond.val = TRUE
        /\ (e_tokens # <<>> /\ e_tokens[1] \in FalseWords)
                => ~e_cond.raised /\ e_cond.val = FALSE
        /\ (/\ e_tokens # <<>>
            /\ e_tokens[1] \notin TrueWords \cup FalseWords
            /\ Upper(e_tokens[1]) \notin PredicateNames)
                => /\ ~e_cond.raised
                   /\ e_cond.val = IsTrue(eval_expr(e_tokens, e_store))
                   /\ Unevaluable(e_tokens, e_store) => e_cond.val = FALSE
        /\ e_tokens \in {<<"2", "<", "abc">>, <<"2", "//", "0">>, <<"2", "+">>,
                          <<"abc", "==", "abc">>, <<"2", "==", "0">>, <<"NOT", "2">>}
                => e_cond.val = FALSE
        /\ e_tokens \in {<<"abc">>, <<"2">>, <<"2", "==", "2">>, <<"NOT", "0">>,
                          <<"2", "AND", "True">>}
                => e_cond.val = TRUE
        /\ (e_tokens = <<"$s">> /\ e_store # <<>>) => e_cond.val = (e_store["$s"].s = "abc")
        /\ e_tokens = <<"$x", "==", "2">> => e_cond.val = (e_store # <<>> /\ e_store["$x"].t = "int")

\* a list that starts with the literal 0 and would evaluate to 2
C29_Witness ==
    Called(e_cond) /\ e_tokens = <<"0", "+", "2">> /\ e_cond.val = FALSE /\ ~e_cond.raised

(***************************************************************************)
(* C30 as stated: IMAGE_MATCH and PIXEL_COLOR need image processing and    *)
(* screen capture, WINDOW_EXISTS needs window enumeration; on a host that  *)
(* lacks a library the predicate needs, eval_condition returns false and   *)
(* logs a warning, and on no host does it raise.  The code tests HAS_CV    *)
(* alone before mss.mss(): with cv2 present and mss missing the call ends  *)
(* in an AttributeError.                                                   *)
(***************************************************************************)
Needed(func, env) ==
    CASE func \in {"IMAGE_MATCH", "PIXEL_COLOR"} -> env.cv /\ env.mss
      [] func = "WINDOW_EXISTS" -> env.win32
      [] OTHER -> TRUE

C30_MissingBackendGivesFalse ==
    (Called(e_cond) /\ e_tokens # <<>>
        /\ Upper(e_tokens[1]) \in {"IMAGE_MATCH", "PIXEL_COLOR", "WINDOW_EXISTS"})
        => /\ ~e_cond.raised
           /\ ~Needed(Upper(e_tokens[1]), e_env)
                => e_cond.val = FALSE /\ e_cond.warns >= 1

\* C31: every playback thread starts with an empty VariableStore and a clear
\* stop event of its own: the first PRINT $x of every run prints 0 whatever
\* earlier runs assigned, a thread is created with its flag clear, and a flag
\* becomes set only by a stop() made while that thread is MacroPlayer._thread.
C31_FreshStoreAndFlagPerRun ==
    /\ [](\A t \in 1..Len(p_threads) :
            /\ p_threads[t].printed \in {<<>>, <<"0">>}
            /\ p_threads[t].pc = 1 => p_threads[t].variables = <<>>)
    /\ [][\A t \in 1..Len(p_threads') :
            /\ t > Len(p_threads) => ~p_threads'[t].stop
            /\ (t <= Len(p_threads) /\ p_threads'[t].stop /\ ~p_threads[t].stop)
                    => p_thread = t
            /\ (t <= Len(p_threads) /\ p_threads'[t].variables # p_threads[t].variables)
                    => p_threads'[t].pc = p_threads[t].pc + 1]_vars

\* a second run has printed $x and runs on, after a first run that assigned
\* $x and was stopped
C31_Witness ==
    /\ Len(p_threads) >= 2
    /\ p_threads[1].stop /\ Get(p_threads[1].variables, "$x") = IntV(1)
    /\ p_threads[2].printed = <<"0">> /\ ~p_threads[2].stop /\ p_threads[2].active
    /\ p_threads[2].pc = 2

\* C32: the dict as_dict returns is a copy, independent of the store: a write
\* to a snapshot leaves the dict of the store as it was, and a set on the
\* store leaves every snapshot handed out before as it was.
C32_SnapshotIndependent ==
    [][/\ d_op' = "write" => d_heap'[1] = d_heap[1]
       /\ d_op' = "set" =>
            \A i \in 1..Len(d_snaps) : d_heap'[d_snaps[i]] = d_heap[d_snaps[i]]]_vars

\* a snapshot was taken with $x = 1, the observer gave it an entry the store
\* does not have, and the store was then set to another value of $x
C32_Witness ==
    /\ d_op = "set" /\ Len(d_snaps) >= 1
    /\ Get(d_heap[1], "$x") = IntV(2) /\ "$y" \notin DOMAIN d_heap[1]
    /\ Get(d_heap[d_snaps[1]], "$x") = IntV(1) /\ "$y" \in DOMAIN d_heap[d_snaps[1]]

\* C33: _sleep sleeps in chunks of at most 0.05 s and looks at the stop event
\* before each: a look that finds it set ends the wait with no further sleep,
\* so at most one chunk ends after the event was set, whatever the duration;
\* a wait whose scaled duration is zero or negative sleeps no chunk.
C33_WaitPollsBeforeEachChunk ==
    /\ [](/\ w_late <= 1
          /\ \A i \in 1..Len(w_chunks) : w_chunks[i] > 0 /\ w_chunks[i] <= Chunk
          /\ Target <= 0 => w_chunks = <<>>)
    /\ [][(w_pc = "poll" /\ w_flag) => (w_pc' = "done" /\ w_chunks' = w_chunks)]_vars

\* a long wait returned early: the event was set during a chunk, that chunk
\* ended, and more than two chunks of the duration were never slept
C33_Witness ==
    /\ w_pc = "done" /\ w_flag /\ w_late = 1 /\ Len(w_chunks) >= 2
    /\ w_elapsed + 2 * Chunk < Target

\* whether character i of the line lies in a double-quoted span under the
\* quoting rules of the tokens: a quote opens or closes a span unless a
\* backslash precedes it
RECURSIVE InSpanFrom(_, _, _, _)
InSpanFrom(line, j, i, q) ==
    IF j >= i THEN q
    ELSE IF line[j] = Backslash THEN InSpanFrom(line, j + 2, i, q)
    ELSE IF line[j] = Quote THEN InSpanFrom(line, j + 1, i, ~q)
    ELSE InSpanFrom(line, j + 1, i, q)
InSpan(line, i) == InSpanFrom(line, 1, i, FALSE)

\* a line of blanks only, or whose first character that is no blank is #
BlankOrComment(line) ==
    \A i \in 1..Len(line) :
        line[i] # Blank => \E j \in 1..i : line[j] = COMMENT_PREFIX /\ \A k \in 1..(j - 1) : line[k] = Blank

\* C34: tokenize gives a token list for every line: the empty list for a blank
\* or comment-only line; a # inside a double-quoted span starts no comment;
\* a line with an unterminated quote is split at whitespace after the comment
\* is cut and the line trimmed.
C34_TokenizeTotal ==
    \A k \in 1..Len(s_done) :
        LET line == s_text[k]
            stripped == strip(strip_comment(line))
        IN  /\ BlankOrComment(line) => s_done[k].tokens = <<>>
            /\ \A i \in 1..Len(line) :
                    (line[i] = COMMENT_PREFIX /\ InSpan(line, i))
                        => strip_comment(line) # SubSeq(line, 1, i - 1)
            /\ (stripped # <<>> /\ ~shlex_split(stripped).ok)
                    => s_done[k].tokens = split(stripped)

\* the count_expr of the Loop nodes of the tree, in the order of their lines
LoopCounts ==
    LET q == SelectSeq(Flatten(b_out.nodes, 0, "body"), LAMBDA e : e.k = "LOOP")
    IN  [i \in 1..Len(q) |-> q[i].toks[1]]

\* the LOOP lines of the input, in order
LoopLines == SelectSeq(b_lines, LAMBDA l : Upper(l[1]) = "LOOP")

\* C35: in a tree build_ast returns, the Loop node of every LOOP line has the
\* second token of that line as its count_expr, as written, and "1" when the
\* line is LOOP alone.
C35_LoopCountIsSecondToken ==
    (BuildDone /\ b_out.ok)
        => LoopCounts = [i \in 1..Len(LoopLines) |->
                            IF Len(LoopLines[i]) > 1 THEN LoopLines[i][2] ELSE "1"]

\* LOOP $n + 1 holding LOOP alone holding LOOP 2*3: the counts are $n, 1 and 2*3
C35_Witness ==
    /\ BuildDone /\ b_out.ok /\ Len(b_lines) = 6
    /\ b_lines[1] = <<"LOOP", "$n", "+", "1">>
    /\ LoopCounts = <<"$n", "1", "2*3">>
    /\ b_out.nodes[1].body[1].body[1] = LoopNode("2*3", <<P("a", 3)>>)

\* C36: every run ends, whatever the script and whenever stop() is called,
\* given that every step of the playback thread that can be made is made.
C36_EveryRunEnds == <>(status = "finished")

\* limits has ended: both of its While loops and its Repeat were cut at the
\* ceiling, the Loop ran its five rounds, and the last command ran
C36_Witness ==
    /\ prog = "limits" /\ status = "finished" /\ stack = <<>>
    /\ Logged("WHILE: iteration limit") = 2 /\ Logged("REPEAT: iteration limit") = 1
    /\ Times("l") = 5 /\ Last(Printed) = "after"

\* C37: a BREAK or CONTINUE raised in a callee outside any loop of the callee
\* passes the Call: the frame of the call is left with the exception still
\* raised and without the "CALL <-" message, and the loop of the caller that
\* holds the Call handles it.  In flow_call the BREAK of brk_sub ends the
\* Loop in its first round, and the CONTINUE of cont_sub starts the next
\* round of the While each time.
C37_FlowCrossesCall ==
    /\ []((prog = "flow_call" /\ Undisturbed)
            => Printed = <<"a", "s", "u", "u", "after">>)
    /\ [][(Raised /\ sig \in {"Break", "Continue"} /\ Top.k = "call" /\ stack' # stack)
            => (stack' = Pop /\ sig' = sig /\ log' = log)]_vars

\* flow_call has ended undisturbed: brk_sub ran once, cont_sub twice, no call
\* returned normally, and nothing after a Call in a loop body was executed
C37_Witness ==
    /\ prog = "flow_call" /\ Undisturbed
    /\ Times("s") = 1 /\ Times("u") = 2 /\ Times("b") = 0 /\ Times("d") = 0
    /\ Logged("CALL <-") = 0 /\ Last(Printed) = "after"

\* a Break, Continue or Return is raised and no frame of the run handles it
Escaping ==
    /\ status = "running" /\ sig \in {"Break", "Continue", "Return"}
    /\ \A i \in 1..Len(stack) : ~Handles(stack[i], sig)

\* C38: once a BREAK or CONTINUE is raised with no loop around it in any
\* active script, or a RETURN with no Call around it, it leaves the run of
\* the script played: no further command, assignment, call or condition is
\* executed, and the run ends with the playback error message and neither
\* of the other two.
C38_FlowEscapesTopLevel ==
    /\ [][Escaping => /\ trace' = trace
                      /\ status' # "finished" => Escaping'
                      /\ status' = "finished" =>
                            /\ Last(log').text = "playback error"
                            /\ Len(log') = Len(log) + 1]_vars
    /\ []((status = "finished" /\ Logged("playback error") = 1)
            => (Logged("completed") = 0 /\ Logged("interrupted") = 0))

\* top_ret has ended: its RETURN, inside a TRY inside a Loop, ended the run
\* after the first command with the playback error message
C38_Witness ==
    /\ prog = "top_ret" /\ status = "finished" /\ Printed = <<"a">>
    /\ Last(log) = Msg("ERROR", "playback error")

\* the keyword of a token line, as _peek reads it
Kw(line) == Upper(line[1])

\* how many token lines carry one of the keywords
KwLines(lines, kws) == Cardinality({i \in 1..Len(lines) : Kw(lines[i]) \in kws})

\* how many entries of a flattened tree are of one of the kinds
Entries(flat, kinds) == Cardinality({i \in 1..Len(flat) : flat[i].k \in kinds})

\* the 0-based indices of the lines that are neither an opening keyword nor
\* a block terminator: the commands, assignments and calls
LeafIndices(lines) ==
    {i \in 0..(Len(lines) - 1) : Kw(lines[i + 1]) \notin Openers \cup BLOCK_TERMINATORS}

\* the stop set _parse_block is called with after a line of the keyword
StopAfter(kw) ==
    CASE kw = "LOOP" -> {"ENDLOOP"}
      [] kw = "WHILE" -> {"ENDWHILE"}
      [] kw = "REPEAT" -> {"UNTIL"}
      [] kw \in {"IF", "ELSEIF"} -> {"ELSEIF", "ELSE", "ENDIF"}
      [] kw = "ELSE" -> {"ENDIF"}
      [] kw = "TRY" -> {"CATCH", "ENDTRY"}
      [] kw = "CATCH" -> {"ENDTRY"}
      [] OTHER -> {}

\* the blocks the builder can open on the lines: the one of build at the
\* first line, and one after every line that opens or divides a block
BlockStarts(lines) ==
    {0} \cup {pos \in 1..Len(lines) : StopAfter(Kw(lines[pos])) # {}}

\* the leaves of the tree are the command lines, in order, each once and
\* under its own index; every opening and ELSEIF line made one block node or
\* branch; and no kind of block has fewer nodes than lines that close or
\* divide it
ConsumedOnce(lines, flat) ==
    /\ \E leaves \in {[i \in {j \in 1..Len(flat) : flat[j].k = "leaf"} |-> flat[i].line]} :
          /\ Cardinality(DOMAIN leaves) = Cardinality(LeafIndices(lines))
          /\ {leaves[i] : i \in DOMAIN leaves} = LeafIndices(lines)
          /\ \A i, j \in DOMAIN leaves : i < j => leaves[i] < leaves[j]
    /\ \A kw \in Openers \cup {"ELSEIF"} : Entries(flat, {kw}) = KwLines(lines, {kw})
    /\ KwLines(lines, {"ENDLOOP"}) <= Entries(flat, {"LOOP"})
    /\ KwLines(lines, {"ENDWHILE"}) <= Entries(flat, {"WHILE"})
    /\ KwLines(lines, {"UNTIL"}) <= Entries(flat, {"REPEAT"})
    /\ KwLines(lines, {"ELSE"}) <= Entries(flat, {"IF"})
    /\ KwLines(lines, {"ENDIF"}) <= Entries(flat, {"IF"})
    /\ KwLines(lines, {"CATCH"}) <= Entries(flat, {"TRY"})
    /\ KwLines(lines, {"ENDTRY"}) <= Entries(flat, {"TRY"})

\* C39: build ends on every token-line list, with the nodes or with a
\* ParseError at one of the lines; a dispatch that returns has moved the
\* cursor forward by at least one line and a block never moves it back;
\* and when build succeeds every line was consumed once, as one leaf
\* recorded under its 0-based index or as the opening, branch or closing
\* keyword of one block node.
C39_CursorConsumesEachLineOnce ==
    BuildDone =>
        /\ b_out.ok \/ b_out.line \in 1..Len(b_lines)
        /\ \A pos \in 0..(Len(b_lines) - 1) : \E r \in {dispatch(b_lines, pos)} :
              r.err = 0 => r.pos \in (pos + 1)..Len(b_lines)
        /\ \A pos \in BlockStarts(b_lines) :
              \E r \in {parse_block(b_lines, pos,
                                    IF pos = 0 THEN {} ELSE StopAfter(Kw(b_lines[pos])))} :
                  r.err = 0 => r.pos \in pos..Len(b_lines)
        /\ b_out.ok => \E flat \in {Flatten(b_out.nodes, 0, "body")} : ConsumedOnce(b_lines, flat)

\* a Try was built from nine lines: an If with an assignment and, after
\* ELSE, a call in its body, a command after CATCH; the three leaves carry
\* the indices 2, 4 and 7
C39_Witness ==
    /\ BuildDone /\ b_out.ok /\ Len(b_lines) = 9
    /\ Kw(b_lines[1]) = "TRY" /\ Kw(b_lines[7]) = "CATCH"
    /\ LeafIndices(b_lines) = {2, 4, 7}
    /\ Len(b_out.nodes) = 1 /\ b_out.nodes[1].kind = "Try"
    /\ b_out.nodes[1].try_body[1].else_body[1].line_num = 4
    /\ b_out.nodes[1].catch_body[1].line_num = 7

\* C40: when the first token of a condition is TRUE or 1 in any case of
\* letters, eval_condition returns true, and false when it is FALSE or 0,
\* under every store and on every host, with nothing raised and nothing
\* logged: the tokens that follow are not evaluated and no variable is
\* read.  `1 == 2` and `TRUE AND $x` are true, `0 == 0` is false.
C40_LiteralEndsCondition ==
    (Called(e_cond) /\ e_tokens # <<>>) =>
        /\ Upper(e_tokens[1]) \in {"TRUE", "1"} => e_cond = Ended(FALSE, TRUE, 0)
        /\ Upper(e_tokens[1]) \in {"FALSE", "0"} => e_cond = Ended(FALSE, FALSE, 0)
        /\ e_tokens \in {<<"1", "==", "2">>, <<"TRUE", "AND", "$x">>} => e_cond.val = TRUE
        /\ e_tokens = <<"0", "==", "0">> => e_cond.val = FALSE

\* `TRUE AND $x` was both evaluated as an expression, which gave a false
\* value under a store where $x is not set, and taken as a condition, which
\* gave true with nothing logged
C40_Witness ==
    /\ e_tokens = <<"TRUE", "AND", "$x">> /\ e_store = <<>>
    /\ Called(e_expr) /\ ~Truthy(e_expr.val)
    /\ e_cond = Ended(FALSE, TRUE, 0)
====
